---- MODULE Spec2Model ----
(***************************************************************************)
(* The evaluation Runner of evaluation/runner.go as a state machine: one   *)
(* call of RunEvalSet on one Runner, from the nil checks to the return,    *)
(* with the agent runner, the session service, the evaluators (and the     *)
(* judge behind them) and the result storage as the environment.           *)
(***************************************************************************)
EXTENDS Integers, Sequences, FiniteSets, Bags, TLC

\* ------------------------------------------------------------------ bounds
MaxCases == 2
MaxCriteria == 2
MaxCallers == 2
MaxCalls == 3
MaxTime == 4
MaxTextLen == 3
MaxToolCalls == 2
MaxInvocations == 2
MaxSentences == 2
MaxSamples == 2
MaxTurns == 2
MaxIterations == 2
MaxSubAgents == 2
MaxParts == 2
MaxAppends == 2
\* Create is called up to MaxCreates times.
MaxCreates == 2
MaxTemplateLen == 4

Nil == "nil"

\* ---------------------------------------------------------- status values
EvalStatusPassed == "PASSED"
EvalStatusFailed == "FAILED"
EvalStatusError == "ERROR"
EvalStatusNotEvaluated == "NOT_EVALUATED"

EvalStatuses ==
  {EvalStatusPassed, EvalStatusFailed, EvalStatusError, EvalStatusNotEvaluated}

\* ------------------------------------------------------------ metric types
MetricResponseMatch == "RESPONSE_MATCH_SCORE"
MetricSemanticResponseMatch == "SEMANTIC_RESPONSE_MATCH"
MetricToolTrajectoryAvgScore == "TOOL_TRAJECTORY_AVG_SCORE"
MetricResponseEvaluationScore == "RESPONSE_EVALUATION_SCORE"
MetricResponseQuality == "RESPONSE_QUALITY"
MetricSafety == "SAFETY"
MetricToolUseQuality == "TOOL_USE_QUALITY"
MetricHallucinations == "HALLUCINATIONS"
\* a metric type no constructor is registered for
MetricUnregistered == "UNREGISTERED_METRIC"

MetricTypes == {MetricResponseMatch, MetricSemanticResponseMatch, MetricUnregistered}

\* the registry the Runner resolves metric types with
Registry == {MetricResponseMatch, MetricSemanticResponseMatch}

\* the key of the synthetic entry of a case whose replay failed
ErrorKey == "error"

\* the scores an evaluator may report (0.0 and 1.0), kept exact
Scores == {0, 1}

\* A float64 quotient as the exact rational <<numerator, denominator>>.
Quot(n, d) == <<n, d>>
ZeroScore == <<0, 1>>
RatEq(a, b) == a[1] * b[2] = b[1] * a[2]


\* the conversations a case may hold (the roles of its turns): one without a
\* user turn, one with two user turns around an agent turn
Conversations ==
  { <<"agent">>, <<"user", "agent", "user">> }

\* --------------------------------------------------------------- helpers
RECURSIVE SeqsUpTo(_, _)
SeqsUpTo(S, n) ==
  IF n = 0 THEN { <<>> }
  ELSE LET shorter == SeqsUpTo(S, n - 1)
       IN shorter \cup { Append(s, x) : s \in { t \in shorter : Len(t) = n - 1 }, x \in S }

\* a Go map as a function from its key set
EmptyMap == [x \in {} |-> Nil]
\* The assignment m[k] = v keeping an entry the map already has.
PutKeepsEarlier(m, k, v) ==
  [x \in (DOMAIN m) \cup {k} |-> IF x \in DOMAIN m THEN m[x] ELSE v]
\* The assignment m[k] = v of a Go map.
Put(m, k, v) == [x \in (DOMAIN m) \cup {k} |-> IF x = k THEN v ELSE m[x]]

MetricResult(metricType, status, score) ==
  [MetricType |-> metricType, Status |-> status, Score |-> score]

\* ------------------------------------------------- the Runner's pure parts
\* isLLMBasedMetric: every metric but the two algorithmic ones needs the judge.
isLLMBasedMetric(metricType) ==
  metricType \notin {MetricResponseMatch, MetricToolTrajectoryAvgScore}

GetMetricType(criterion) == criterion.MetricType

\* createEvaluator: TRUE iff the registry yields an evaluator for the type.
createEvaluator(metricType) == metricType \in Registry

\* buildExpectedInvocations: one expected invocation iff ExpectedResponse # "".
buildExpectedInvocations(evalCase) == IF evalCase.ExpectedResponse # "" THEN 1 ELSE 0

\* The loop of determineCaseStatus over the map's entries, one key at a time:
\* flags is <<allPassed, anyFailed, hasEvaluated>>.
RECURSIVE CaseStatusLoop(_, _, _)
CaseStatusLoop(metricResults, keys, flags) ==
  IF keys = {} THEN flags
  ELSE LET k == CHOOSE x \in keys : TRUE
           st == metricResults[k].Status
           next == IF st = EvalStatusFailed THEN <<FALSE, TRUE, TRUE>>
                   ELSE IF st = EvalStatusPassed THEN <<flags[1], flags[2], TRUE>>
                   ELSE IF st # EvalStatusError THEN <<FALSE, flags[2], TRUE>>
                   ELSE flags
       IN CaseStatusLoop(metricResults, keys \ {k}, next)

\* determineCaseStatus with an Error entry counted as a failed metric.
determineCaseStatusErrorFails(metricResults) ==
  IF DOMAIN metricResults = {} THEN EvalStatusNotEvaluated
  ELSE LET flags == CaseStatusLoop(metricResults, DOMAIN metricResults, <<TRUE, FALSE, FALSE>>)
       IN IF flags[2] \/ \E k \in DOMAIN metricResults :
                           metricResults[k].Status = EvalStatusError
          THEN EvalStatusFailed
          ELSE IF flags[1] /\ flags[3] THEN EvalStatusPassed
          ELSE EvalStatusNotEvaluated

\* determineCaseStatus without the hasEvaluated flag.
determineCaseStatusNoHasEvaluated(metricResults) ==
  IF DOMAIN metricResults = {} THEN EvalStatusNotEvaluated
  ELSE LET flags == CaseStatusLoop(metricResults, DOMAIN metricResults, <<TRUE, FALSE, FALSE>>)
       IN IF flags[2] THEN EvalStatusFailed
          ELSE IF flags[1] THEN EvalStatusPassed
          ELSE EvalStatusNotEvaluated

\* determineCaseStatus without the test for an empty map: the vacuous
\* allPassed makes the case Passed.
determineCaseStatusEmptyPasses(metricResults) ==
  LET flags == CaseStatusLoop(metricResults, DOMAIN metricResults, <<TRUE, FALSE, FALSE>>)
  IN IF flags[2] THEN EvalStatusFailed
     ELSE IF flags[1] THEN EvalStatusPassed
     ELSE EvalStatusNotEvaluated

determineCaseStatus(metricResults) ==
  IF DOMAIN metricResults = {} THEN EvalStatusNotEvaluated
  ELSE LET flags == CaseStatusLoop(metricResults, DOMAIN metricResults, <<TRUE, FALSE, FALSE>>)
       IN IF flags[2] THEN EvalStatusFailed
          ELSE IF flags[1] /\ flags[3] THEN EvalStatusPassed
          ELSE EvalStatusNotEvaluated

\* The loop of determineOverallStatus over the case results, in order:
\* flags is <<allPassed, anyFailed>>.
RECURSIVE OverallStatusLoop(_, _, _)
OverallStatusLoop(cases, i, flags) ==
  IF i > Len(cases) THEN flags
  ELSE LET st == cases[i].FinalEvalStatus
           next == IF st = EvalStatusFailed THEN <<FALSE, TRUE>>
                   ELSE IF st # EvalStatusPassed THEN <<FALSE, flags[2]>>
                   ELSE flags
       IN OverallStatusLoop(cases, i + 1, next)

\* determineOverallStatus with an Error case counted as a failed case.
determineOverallStatusErrorFails(cases) ==
  IF Len(cases) = 0 THEN EvalStatusNotEvaluated
  ELSE LET flags == OverallStatusLoop(cases, 1, <<TRUE, FALSE>>)
       IN IF flags[2] \/ \E i \in 1..Len(cases) : cases[i].FinalEvalStatus = EvalStatusError
          THEN EvalStatusFailed
          ELSE IF flags[1] THEN EvalStatusPassed
          ELSE EvalStatusNotEvaluated

\* determineOverallStatus without the check for an empty list of cases.
determineOverallStatusNoEmptyCheck(cases) ==
  LET flags == OverallStatusLoop(cases, 1, <<TRUE, FALSE>>)
  IN IF flags[2] THEN EvalStatusFailed
     ELSE IF flags[1] THEN EvalStatusPassed
     ELSE EvalStatusNotEvaluated

determineOverallStatus(cases) ==
  IF Len(cases) = 0 THEN EvalStatusNotEvaluated
  ELSE LET flags == OverallStatusLoop(cases, 1, <<TRUE, FALSE>>)
       IN IF flags[2] THEN EvalStatusFailed
          ELSE IF flags[1] THEN EvalStatusPassed
          ELSE EvalStatusNotEvaluated

\* The inner loop of calculateOverallScore: acc is <<totalScore, numScores>>.
RECURSIVE ScoreLoopMetrics(_, _, _)
ScoreLoopMetrics(metricResults, keys, acc) ==
  IF keys = {} THEN acc
  ELSE LET k == CHOOSE x \in keys : TRUE
           r == metricResults[k]
           next == IF r.Status # EvalStatusError
                   THEN <<acc[1] + r.Score, acc[2] + 1>>
                   ELSE acc
       IN ScoreLoopMetrics(metricResults, keys \ {k}, next)

RECURSIVE ScoreLoopCases(_, _, _)
ScoreLoopCases(cases, i, acc) ==
  IF i > Len(cases) THEN acc
  ELSE ScoreLoopCases(cases, i + 1,
         ScoreLoopMetrics(cases[i].OverallMetricResults,
                          DOMAIN cases[i].OverallMetricResults, acc))

\* The inner loop of calculateOverallScore with the Error entries counted too.
RECURSIVE ScoreLoopMetricsAll(_, _, _)
ScoreLoopMetricsAll(metricResults, keys, acc) ==
  IF keys = {} THEN acc
  ELSE LET k == CHOOSE x \in keys : TRUE
       IN ScoreLoopMetricsAll(metricResults, keys \ {k},
                              <<acc[1] + metricResults[k].Score, acc[2] + 1>>)

RECURSIVE ScoreLoopCasesAll(_, _, _)
ScoreLoopCasesAll(cases, i, acc) ==
  IF i > Len(cases) THEN acc
  ELSE ScoreLoopCasesAll(cases, i + 1,
         ScoreLoopMetricsAll(cases[i].OverallMetricResults,
                             DOMAIN cases[i].OverallMetricResults, acc))

\* calculateOverallScore averaging over every metric result, Error or not.
calculateOverallScoreCountsErrors(cases) ==
  IF Len(cases) = 0 THEN ZeroScore
  ELSE LET acc == ScoreLoopCasesAll(cases, 1, <<0, 0>>)
       IN IF acc[2] = 0 THEN ZeroScore ELSE Quot(acc[1], acc[2])

calculateOverallScore(cases) ==
  IF Len(cases) = 0 THEN ZeroScore
  ELSE LET acc == ScoreLoopCases(cases, 1, <<0, 0>>)
       IN IF acc[2] = 0 THEN ZeroScore ELSE Quot(acc[1], acc[2])

\* ------------------------------------------------------------ environment
\* The loop of runConversation over the turns: only a user turn runs the
\* agent, the run of turn failAt (if any) yields an error, every other user
\* turn yields one invocation.  n counts the invocations collected so far.
RECURSIVE ConversationLoop(_, _, _, _)
ConversationLoop(conversation, i, failAt, n) ==
  IF i > Len(conversation) THEN [err |-> FALSE, invocations |-> n]
  ELSE IF conversation[i] # "user" THEN ConversationLoop(conversation, i + 1, failAt, n)
  ELSE IF i = failAt THEN [err |-> TRUE, invocations |-> 0]
  ELSE ConversationLoop(conversation, i + 1, failAt, n + 1)

\* createSession: an error of the session service is tolerated iff it says
\* "already exists".  sessionErr is "", "already exists" or "unavailable".
createSession(sessionErr) == sessionErr \in {"", "already exists"}

SessionErrors == {"", "already exists", "unavailable"}

\* runConversation, given what the session service and the agent runner do.
runConversation(runner, conversation, sessionErr, failAt) ==
  IF runner = Nil THEN [err |-> FALSE, invocations |-> 0]
  ELSE IF ~createSession(sessionErr) THEN [err |-> TRUE, invocations |-> 0]
  ELSE ConversationLoop(conversation, 1, failAt, 0)

\* What Evaluate of the built-in evaluator of a metric type may return, given
\* the numbers of actual and expected invocations: err, or a result whose
\* status and score the evaluator (or the judge behind it) decides.
EvaluateOutcomes(metricType, nActual, nExpected) ==
  LET failed == [err |-> TRUE, Status |-> EvalStatusError, Score |-> 0]
      results(statuses) ==
        { r \in [err : {FALSE}, Status : statuses, Score : Scores] :
            r.Status # EvalStatusPassed => r.Score = 0 }
  IN IF nActual = 0 \/ nExpected = 0 THEN {failed}
     ELSE IF metricType = MetricResponseMatch
     THEN results({EvalStatusPassed, EvalStatusFailed})
     ELSE {failed} \cup results(EvalStatuses)

\* ------------------------------------------------------------- evaluators
\* float64 scores as exact fractions <<numerator, denominator>>.
RatAdd(a, b) == <<a[1] * b[2] + b[1] * a[2], a[2] * b[2]>>
RatMul(a, b) == <<a[1] * b[1], a[2] * b[2]>>
RatDiv(a, b) == <<a[1] * b[2], a[2] * b[1]>>
RatLess(a, b) == a[1] * b[2] < b[1] * a[2]
OneScore == <<1, 1>>

\* Texts are sequences of runes: a lower-case and an upper-case letter, a
\* second letter, and a blank (neither letter nor number).
Runes == {"a", "A", "b", " "}
ToLower(r) == IF r = "A" THEN "a" ELSE r
IsLetterOrNumber(r) == r # " "
Texts == SeqsUpTo(Runes, MaxTextLen)

\* tokenize: the text in lower case, cut at every rune that is neither a
\* letter nor a number; empty pieces are dropped.
RECURSIVE TokenizeLoop(_, _, _, _)
TokenizeLoop(text, i, tokens, current) ==
  IF i > Len(text)
  THEN IF current # <<>> THEN Append(tokens, current) ELSE tokens
  ELSE IF IsLetterOrNumber(ToLower(text[i]))
       THEN TokenizeLoop(text, i + 1, tokens, Append(current, ToLower(text[i])))
       ELSE TokenizeLoop(text, i + 1,
                         IF current # <<>> THEN Append(tokens, current) ELSE tokens,
                         <<>>)

tokenize(text) == TokenizeLoop(text, 1, <<>>, <<>>)

\* The maps token -> count that calculateROUGE1 builds.
TokenCount(tokens, token) == Cardinality({i \in DOMAIN tokens : tokens[i] = token})
Min(a, b) == IF a < b THEN a ELSE b

\* calculateROUGE1, lines 118-123: the loop over actualSet adding
\* min(count, expectedCount) for the tokens that exist in expectedSet.
RECURSIVE OverlapLoop(_, _, _, _)
OverlapLoop(actualTokens, expectedTokens, keys, overlap) ==
  IF keys = {} THEN overlap
  ELSE LET token == CHOOSE t \in keys : TRUE
       IN OverlapLoop(actualTokens, expectedTokens, keys \ {token},
                      IF TokenCount(expectedTokens, token) > 0
                      THEN overlap + Min(TokenCount(actualTokens, token),
                                         TokenCount(expectedTokens, token))
                      ELSE overlap)

\* The same with the roles of precision and recall confused: overlap over
\* the actual tokens twice.
calculateROUGE1PrecisionOnly(actual, expected) ==
  LET actualTokens == tokenize(actual)
      expectedTokens == tokenize(expected)
      overlap == OverlapLoop(actualTokens, expectedTokens,
                             {actualTokens[i] : i \in DOMAIN actualTokens}, 0)
  IN IF Len(actualTokens) = 0 \/ Len(expectedTokens) = 0
     THEN IF Len(actualTokens) = 0 /\ Len(expectedTokens) = 0 THEN OneScore ELSE ZeroScore
     ELSE Quot(overlap, Len(actualTokens))

\* The same without the test for two empty token lists.
calculateROUGE1EmptyIsZero(actual, expected) ==
  LET actualTokens == tokenize(actual)
      expectedTokens == tokenize(expected)
      overlap == OverlapLoop(actualTokens, expectedTokens,
                             {actualTokens[i] : i \in DOMAIN actualTokens}, 0)
      precision == Quot(overlap, Len(actualTokens))
      recall == Quot(overlap, Len(expectedTokens))
  IN IF Len(actualTokens) = 0 \/ Len(expectedTokens) = 0
     THEN ZeroScore
     ELSE IF RatAdd(precision, recall)[1] = 0
          THEN ZeroScore
          ELSE RatDiv(RatMul(<<2, 1>>, RatMul(precision, recall)),
                      RatAdd(precision, recall))

\* calculateROUGE1: the F1 of the unigram overlap of two texts.
calculateROUGE1(actual, expected) ==
  LET actualTokens == tokenize(actual)
      expectedTokens == tokenize(expected)
      overlap == OverlapLoop(actualTokens, expectedTokens,
                             {actualTokens[i] : i \in DOMAIN actualTokens}, 0)
      precision == Quot(overlap, Len(actualTokens))
      recall == Quot(overlap, Len(expectedTokens))
  IN IF Len(actualTokens) = 0 \/ Len(expectedTokens) = 0
     THEN IF Len(actualTokens) = 0 /\ Len(expectedTokens) = 0 THEN OneScore ELSE ZeroScore
     ELSE IF RatAdd(precision, recall)[1] = 0
          THEN ZeroScore
          ELSE RatDiv(RatMul(<<2, 1>>, RatMul(precision, recall)),
                      RatAdd(precision, recall))

\* ToolCall.Arguments, a map[string]any: nil or a map from keys to values,
\* a value being a dynamic type and a number.
ArgValues == {<<"int", 1>>, <<"int", 2>>, <<"float64", 1>>}
NilArgs == [nil |-> TRUE, m |-> EmptyMap]
EmptyArgs == [nil |-> FALSE, m |-> EmptyMap]
ArgMaps == {NilArgs, EmptyArgs} \cup {[nil |-> FALSE, m |-> ("a" :> v)] : v \in ArgValues}
ToolCalls == [ToolName : {"f"}, Arguments : ArgMaps]
               \cup {[ToolName |-> "g", Arguments |-> NilArgs]}
ToolCallSeqs == SeqsUpTo(ToolCalls, MaxToolCalls)

\* reflect.DeepEqual on two maps: both nil or both not, the same keys, and
\* under every key values of the same dynamic type and number.
DeepEqual(a, b) ==
  /\ a.nil = b.nil
  /\ DOMAIN a.m = DOMAIN b.m
  /\ \A k \in DOMAIN a.m : a.m[k] = b.m[k]

\* The same comparing the keys only.
argumentsMatchKeysOnly(actual, expected) ==
  \/ Cardinality(DOMAIN actual.m) = 0 /\ Cardinality(DOMAIN expected.m) = 0
  \/ DOMAIN actual.m = DOMAIN expected.m

\* argumentsMatch: two empty (or nil) maps match, maps of different size
\* do not, the others are compared with reflect.DeepEqual.
argumentsMatch(actual, expected) ==
  IF Cardinality(DOMAIN actual.m) = 0 /\ Cardinality(DOMAIN expected.m) = 0
  THEN TRUE
  ELSE IF Cardinality(DOMAIN actual.m) # Cardinality(DOMAIN expected.m)
       THEN FALSE
       ELSE DeepEqual(actual, expected)

toolCallMatches(actual, expected) ==
  IF actual.ToolName # expected.ToolName
  THEN FALSE
  ELSE argumentsMatch(actual.Arguments, expected.Arguments)

RECURSIVE TrajectoryLoop(_, _, _)
TrajectoryLoop(actual, expected, i) ==
  IF i > Len(actual) THEN TRUE
  ELSE IF ~toolCallMatches(actual[i], expected[i]) THEN FALSE
       ELSE TrajectoryLoop(actual, expected, i + 1)

trajectoryMatches(actual, expected) ==
  IF Len(actual) # Len(expected) THEN FALSE ELSE TrajectoryLoop(actual, expected, 1)

\* What Evaluate returns: an error, or a result with status and score;
\* judgeCalls counts the calls of the judge it made on the way.
EvaluateError(judgeCalls) ==
  [err |-> TRUE, Status |-> "", Score |-> ZeroScore, judgeCalls |-> judgeCalls,
   passes |-> <<>>]
EvaluateResult(status, score, judgeCalls) ==
  [err |-> FALSE, Status |-> status, Score |-> score, judgeCalls |-> judgeCalls,
   passes |-> <<>>]

\* Criterion.GetThreshold(): absent, or a threshold with its MinScore.
MinScores == {<<1, 2>>, <<1, 1>>}
NoThreshold == [threshold |-> FALSE, MinScore |-> ZeroScore]
CriterionThresholds == {NoThreshold} \cup [threshold : {TRUE}, MinScore : MinScores]

\* "Determine status based on threshold", as the evaluators that build
\* their own result do it: Passed unless a threshold is missed.
ThresholdStatus(crit, avgScore) ==
  IF crit.threshold /\ RatLess(avgScore, crit.MinScore)
  THEN EvalStatusFailed
  ELSE EvalStatusPassed

\* "Apply threshold", as the evaluators that return the judge's result do
\* it: the judge's status is replaced only when there is a threshold.
ApplyThreshold(crit, judgeStatus, score) ==
  IF crit.threshold
  THEN IF RatLess(score, crit.MinScore) THEN EvalStatusFailed ELSE EvalStatusPassed
  ELSE judgeStatus

\* ResponseMatchEvaluator.Evaluate, the loop over the invocation pairs.
RECURSIVE RougeLoop(_, _, _, _)
RougeLoop(actual, expected, i, totalScore) ==
  IF ~(i <= Len(actual) /\ i <= Len(expected)) THEN totalScore
  ELSE RougeLoop(actual, expected, i + 1,
                 RatAdd(totalScore, calculateROUGE1(actual[i].AgentResponse,
                                                    expected[i].AgentResponse)))

\* ResponseMatchEvaluator.Evaluate.
ResponseMatchEvaluate(params) ==
  IF Len(params.Actual) = 0 THEN EvaluateError(0)
  ELSE IF Len(params.Expected) = 0 THEN EvaluateError(0)
  ELSE LET numComparisons == Min(Len(params.Actual), Len(params.Expected))
           totalScore == RougeLoop(params.Actual, params.Expected, 1, ZeroScore)
           avgScore == RatDiv(totalScore, <<numComparisons, 1>>)
       IN EvaluateResult(ThresholdStatus(params.Criterion, avgScore), avgScore, 0)

\* ToolTrajectoryEvaluator.Evaluate, the loop over the invocation pairs.
RECURSIVE ToolTrajectoryLoop(_, _, _, _)
ToolTrajectoryLoop(actual, expected, i, totalScore) ==
  IF ~(i <= Len(actual) /\ i <= Len(expected)) THEN totalScore
  ELSE ToolTrajectoryLoop(actual, expected, i + 1,
                          IF trajectoryMatches(actual[i].ToolCalls, expected[i].ToolCalls)
                          THEN totalScore + 1 ELSE totalScore)

\* ToolTrajectoryEvaluator.Evaluate.
ToolTrajectoryEvaluate(params) ==
  IF Len(params.Actual) = 0 THEN EvaluateError(0)
  ELSE IF Len(params.Expected) = 0 THEN EvaluateError(0)
  ELSE LET numComparisons == Min(Len(params.Actual), Len(params.Expected))
           totalScore == ToolTrajectoryLoop(params.Actual, params.Expected, 1, 0)
           avgScore == Quot(totalScore, numComparisons)
       IN EvaluateResult(ThresholdStatus(params.Criterion, avgScore), avgScore, 0)

\* The judge (package llmjudge) answers a call with an error or with a
\* result: a score, and a status of its own choice.
JudgeScores == {<<0, 1>>, <<1, 2>>, <<1, 1>>}
RawScores == 1..5
JudgeFailure == [err |-> TRUE, Status |-> "", Score |-> ZeroScore]
JudgeAnswers == {JudgeFailure} \cup [err : {FALSE}, Status : EvalStatuses, Score : JudgeScores]

\* One pass of an evaluator's loop over the actual invocations: what it
\* adds to totalScore and numEvaluations, and the judge calls it made.
Skipped(judgeCalls) == [ok |-> FALSE, score |-> ZeroScore, judgeCalls |-> judgeCalls]
Scored(score, judgeCalls) == [ok |-> TRUE, score |-> score, judgeCalls |-> judgeCalls]

\* The loop over params.Actual of the evaluators that average: passes[i] is
\* the set of ways the i-th pass can go; the result is the set of the
\* possible totals, each with the passes that led to it.
RECURSIVE InvocationLoop(_, _, _)
InvocationLoop(passes, i, acc) ==
  IF i > Len(passes) THEN {acc}
  ELSE UNION { InvocationLoop(passes, i + 1,
                 [ totalScore     |-> IF p.ok THEN RatAdd(acc.totalScore, p.score)
                                      ELSE acc.totalScore,
                   numEvaluations |-> IF p.ok THEN acc.numEvaluations + 1
                                      ELSE acc.numEvaluations,
                   judgeCalls     |-> acc.judgeCalls + p.judgeCalls,
                   passes         |-> Append(acc.passes,
                                        IF p.ok THEN Scored(p.score, p.judgeCalls)
                                        ELSE Skipped(p.judgeCalls)) ]) :
               p \in passes[i] }

\* The end of those evaluators counting a skipped invocation as a score of 0.
AverageOutcomesZeroesFailures(params, passes) ==
  { LET avgScore == RatDiv(acc.totalScore, <<Len(passes), 1>>)
    IN [EvaluateResult(ThresholdStatus(params.Criterion, avgScore), avgScore,
                       acc.judgeCalls) EXCEPT !.passes = acc.passes] :
    acc \in InvocationLoop(passes, 1,
                           [totalScore |-> ZeroScore, numEvaluations |-> 0, judgeCalls |-> 0,
                            passes |-> <<>>]) }

\* The end of those evaluators: an error when nothing was scored, else the
\* average with the status the threshold gives.
AverageOutcomes(params, passes) ==
  { IF acc.numEvaluations = 0
    THEN [EvaluateError(acc.judgeCalls) EXCEPT !.passes = acc.passes]
    ELSE LET avgScore == RatDiv(acc.totalScore, <<acc.numEvaluations, 1>>)
         IN [EvaluateResult(ThresholdStatus(params.Criterion, avgScore), avgScore,
                            acc.judgeCalls) EXCEPT !.passes = acc.passes] :
    acc \in InvocationLoop(passes, 1,
                           [totalScore |-> ZeroScore, numEvaluations |-> 0, judgeCalls |-> 0,
                            passes |-> <<>>]) }

\* SafetyEvaluator.Evaluate: one verdict of the judge per invocation.
SafetyEvaluate(params) ==
  IF Len(params.Actual) = 0 THEN {EvaluateError(0)}
  ELSE AverageOutcomes(params,
         [i \in 1..Len(params.Actual) |->
            {Skipped(1)} \cup {Scored(sc, 1) : sc \in JudgeScores}])

\* ResponseEvaluationScoreEvaluator.Evaluate: one raw score from 1 to 5 per
\* invocation, normalised to (raw - 1) / 4.
ResponseEvaluationScoreEvaluate(params) ==
  IF Len(params.Actual) = 0 THEN {EvaluateError(0)}
  ELSE AverageOutcomes(params,
         [i \in 1..Len(params.Actual) |->
            {Skipped(1)} \cup {Scored(Quot(raw - 1, 4), 1) : raw \in RawScores}])

\* ToolUseQualityEvaluator.Evaluate: invocations without tool calls are
\* skipped without a judge call.
ToolUseQualityEvaluate(params) ==
  IF Len(params.Actual) = 0 THEN {EvaluateError(0)}
  ELSE IF params.Rubrics = 0 THEN {EvaluateError(0)}
  ELSE AverageOutcomes(params,
         [i \in 1..Len(params.Actual) |->
            IF Len(params.Actual[i].ToolCalls) = 0
            THEN {Skipped(0)}
            ELSE {Skipped(1)} \cup {Scored(sc, 1) : sc \in JudgeScores}])

\* SemanticResponseMatchEvaluator.Evaluate: one verdict on the last
\* invocations; the judge's result is returned, its status replaced when
\* the criterion has a threshold.
SemanticResponseMatchEvaluate(params) ==
  IF Len(params.Actual) = 0 THEN {EvaluateError(0)}
  ELSE IF Len(params.Expected) = 0 THEN {EvaluateError(0)}
  ELSE { IF result.err
         THEN EvaluateError(1)
         ELSE EvaluateResult(ApplyThreshold(params.Criterion, result.Status, result.Score),
                             result.Score, 1) : result \in JudgeAnswers }

\* ResponseQualityEvaluator.Evaluate: the same for the rubrics.
ResponseQualityEvaluate(params) ==
  IF Len(params.Actual) = 0 THEN {EvaluateError(0)}
  ELSE IF params.Rubrics = 0 THEN {EvaluateError(0)}
  ELSE { IF result.err
         THEN EvaluateError(1)
         ELSE EvaluateResult(ApplyThreshold(params.Criterion, result.Status, result.Score),
                             result.Score, 1) : result \in JudgeAnswers }

\* HallucinationsEvaluator: the labels of the classification.
LabelSupported == "Supported"
LabelUnsupported == "Unsupported"
LabelContradictory == "Contradictory"
LabelDisputed == "Disputed"
LabelNotApplicable == "Not applicable"
validLabels == {LabelSupported, LabelUnsupported, LabelContradictory, LabelDisputed,
                LabelNotApplicable}

\* The judge's answer to the segmentation prompt: an error, no response at
\* all, or a text, given by its lines (a sentence, an empty line, a blank
\* line).
Lines == {"claim", "", " "}
TrimSpace(line) == IF line = " " THEN "" ELSE line
SegmentAnswers ==
  {[answer |-> a, lines |-> <<>>] : a \in {"error", "no response"}}
    \cup [answer : {"text"}, lines : SeqsUpTo(Lines, MaxSentences) \ {<<>>}]

\* segmentResponse, lines 197-208: the lines that are not blank.
FilterLines(lines) == SelectSeq(lines, LAMBDA line : TrimSpace(line) # "")

\* classifySentence: an error (of the judge, or of the parser), or a label.
Classifications == {"error"} \cup validLabels

\* One pass of the hallucinations evaluator, with what the judge answered:
\* the sentences it segmented the response into, and what classifySentence
\* returned for each of them.
Classified(pass, sentences, labels) ==
  [ok |-> pass.ok, score |-> pass.score, judgeCalls |-> pass.judgeCalls,
   sentences |-> sentences, labels |-> labels]

\* evaluateInvocation, lines 158-176: the loop over the sentences; the
\* result is the set of the possible supportedCount + notApplicableCount,
\* each with the classifications that led to it.
RECURSIVE ClassifyLoop(_, _, _)
ClassifyLoop(sentences, i, acc) ==
  IF i > Len(sentences) THEN {acc}
  ELSE UNION { ClassifyLoop(sentences, i + 1,
                 [counted |-> IF classification \in {LabelSupported, LabelNotApplicable}
                              THEN acc.counted + 1 ELSE acc.counted,
                  labels  |-> Append(acc.labels, classification)]) :
               classification \in Classifications }

\* evaluateInvocation leaving the sentences it could not classify out of the
\* denominator.
evaluateInvocationSkipsUnclassified(invocation) ==
  UNION {
    IF answer.answer \in {"error", "no response"}
    THEN {Classified(Skipped(1), <<>>, <<>>)}
    ELSE LET sentences == FilterLines(answer.lines)
         IN IF Len(sentences) = 0
            THEN {Classified(Scored(OneScore, 1), sentences, <<>>)}
            ELSE { LET classified == Cardinality({i \in 1..Len(acc.labels) :
                                                    acc.labels[i] # "error"})
                   IN Classified(Scored(IF classified = 0 THEN ZeroScore
                                        ELSE Quot(acc.counted, classified),
                                        1 + Len(sentences)),
                                 sentences, acc.labels) :
                   acc \in ClassifyLoop(sentences, 1, [counted |-> 0, labels |-> <<>>]) } :
    answer \in SegmentAnswers }

\* evaluateInvocation: the judge segments the response (whatever it is),
\* then classifies every sentence; the score is the share of the sentences
\* that are supported or not applicable, 1.0 when there is no sentence.
evaluateInvocation(invocation) ==
  UNION {
    IF answer.answer \in {"error", "no response"}
    THEN {Classified(Skipped(1), <<>>, <<>>)}
    ELSE LET sentences == FilterLines(answer.lines)
         IN IF Len(sentences) = 0
            THEN {Classified(Scored(OneScore, 1), sentences, <<>>)}
            ELSE { Classified(Scored(Quot(acc.counted, Len(sentences)), 1 + Len(sentences)),
                              sentences, acc.labels) :
                   acc \in ClassifyLoop(sentences, 1, [counted |-> 0, labels |-> <<>>]) } :
    answer \in SegmentAnswers }

\* HallucinationsEvaluator.Evaluate.
HallucinationsEvaluate(params) ==
  IF Len(params.Actual) = 0 THEN {EvaluateError(0)}
  ELSE AverageOutcomes(params,
         [i \in 1..Len(params.Actual) |-> evaluateInvocation(params.Actual[i])])

\* The invocations the evaluators are run on: responses for the response
\* match, tool calls for the trajectory, both for the judge-based ones.
ResponseTexts == {<<>>, <<"a">>, <<"A", " ", "b">>}
ResponseInvocations == [AgentResponse : ResponseTexts, ToolCalls : {<<>>}]
ToolInvocations ==
  [AgentResponse : {<<>>},
   ToolCalls : {<<>>} \cup {<<[ToolName |-> "f", Arguments |-> [nil |-> FALSE, m |-> ("a" :> v)]]>> :
                              v \in {<<"int", 1>>, <<"int", 2>>}}]
JudgedInvocations ==
  [AgentResponse : {<<>>, <<"a">>},
   ToolCalls : {<<>>, <<[ToolName |-> "f", Arguments |-> NilArgs]>>}]

\* EvaluateParams, as runEvalCase builds them (lines 180-186).
EvaluateParams(actuals, expecteds, rubrics) ==
  [Actual : actuals, Expected : expecteds, Rubrics : rubrics,
   Criterion : CriterionThresholds]

\* The judge-based metrics, and the ones whose evaluator needs the expected
\* invocations.
JudgeMetrics == {MetricSemanticResponseMatch, MetricResponseEvaluationScore,
                 MetricResponseQuality, MetricSafety, MetricToolUseQuality,
                 MetricHallucinations}
MatchMetrics == {MetricResponseMatch, MetricToolTrajectoryAvgScore,
                 MetricSemanticResponseMatch}
Metrics == JudgeMetrics \cup MatchMetrics

\* ------------------------------------------------- the evaluator's judge
\* The three variants of Criterion. Only LLMAsJudgeCriterion carries a judge
\* model and a sample count; a negative count is a legal int.
ThresholdCriterion == [kind |-> "Threshold", JudgeModel |-> "", NumSamples |-> 0]
RubricCriterion == [kind |-> "RubricCriterion", JudgeModel |-> "", NumSamples |-> 0]
LLMAsJudgeCriteria ==
  [kind : {"LLMAsJudgeCriterion"}, JudgeModel : {"", "criterion-model"},
   NumSamples : (0 - 1)..MaxSamples]
Criteria == {ThresholdCriterion, RubricCriterion} \cup LLMAsJudgeCriteria

\* EvalConfig: the judge settings of the suite. JudgeLLM is an interface
\* value: nil, a model.LLM, or something that is not a model.LLM.
JudgeConfigs == [JudgeLLM : {Nil, "llm", "notLLM"}, JudgeModel : {"", "config-model"}]

\* createEvaluator, lines 383-396: the EvaluatorConfig handed to the registry.
EvaluatorConfig(crit, cfg) ==
  LET evaluatorConfig == [LLM |-> cfg.JudgeLLM, JudgeModel |-> cfg.JudgeModel, NumSamples |-> 0]
  IN IF crit.kind = "LLMAsJudgeCriterion"
     THEN [evaluatorConfig EXCEPT
             !.JudgeModel = IF crit.JudgeModel # "" THEN crit.JudgeModel ELSE @,
             !.NumSamples = crit.NumSamples]
     ELSE evaluatorConfig

\* A constructor that returned an error built no judge.
NoJudge == [err |-> TRUE, ModelName |-> "", NumSamples |-> 0]

\* The checks every judge-based constructor starts with, and the judge it
\* builds with the sample count it settled on.
NewJudge(cfg, numSamples) ==
  IF cfg.LLM = Nil \/ cfg.LLM # "llm" \/ cfg.JudgeModel = "" THEN NoJudge
  ELSE [err |-> FALSE, ModelName |-> cfg.JudgeModel, NumSamples |-> numSamples]

\* numSamples := config.NumSamples; if numSamples <= 0 { numSamples = d }
SamplesOr(cfg, d) == IF cfg.NumSamples <= 0 THEN d ELSE cfg.NumSamples

NewSemanticResponseMatchEvaluator(cfg) == NewJudge(cfg, SamplesOr(cfg, 3))
NewResponseQualityEvaluator(cfg) == NewJudge(cfg, SamplesOr(cfg, 3))
NewSafetyEvaluator(cfg) == NewJudge(cfg, SamplesOr(cfg, 3))
NewToolUseQualityEvaluator(cfg) == NewJudge(cfg, SamplesOr(cfg, 3))
NewResponseEvaluationScoreEvaluator(cfg) == NewJudge(cfg, SamplesOr(cfg, 1))
\* The hallucinations evaluator settles on one sample whatever the config says.
NewHallucinationsEvaluator(cfg) == NewJudge(cfg, 1)

\* Registry.CreateEvaluator for the built-in judge-based metrics: the
\* constructor registered for the metric type is called with the config.
CreateEvaluator(metricType, cfg) ==
  CASE metricType = MetricSemanticResponseMatch -> NewSemanticResponseMatchEvaluator(cfg)
    [] metricType = MetricResponseQuality -> NewResponseQualityEvaluator(cfg)
    [] metricType = MetricSafety -> NewSafetyEvaluator(cfg)
    [] metricType = MetricToolUseQuality -> NewToolUseQualityEvaluator(cfg)
    [] metricType = MetricResponseEvaluationScore -> NewResponseEvaluationScoreEvaluator(cfg)
    [] metricType = MetricHallucinations -> NewHallucinationsEvaluator(cfg)

\* ------------------------------------------------------------ the replay
\* genai.Part as runAgentAndCollectEvents reads it: a nil pointer, or a part
\* with a text (possibly empty) and a function call (possibly nil).
NoFunctionCall == [nil |-> TRUE, Name |-> "", Args |-> NilArgs]
FunctionCall(name, args) == [nil |-> FALSE, Name |-> name, Args |-> args]
NilPart == [nil |-> TRUE, Text |-> <<>>, FunctionCall |-> NoFunctionCall]
Part(text, call) == [nil |-> FALSE, Text |-> text, FunctionCall |-> call]

\* What agentRunner.Run yields: an error, a nil event, an event without
\* content, or an event with the parts of its content.
ErrEvent == [err |-> TRUE, nil |-> TRUE, content |-> FALSE, Parts |-> <<>>]
NilEvent == [err |-> FALSE, nil |-> TRUE, content |-> FALSE, Parts |-> <<>>]
NoContentEvent == [err |-> FALSE, nil |-> FALSE, content |-> FALSE, Parts |-> <<>>]
Event(parts) == [err |-> FALSE, nil |-> FALSE, content |-> TRUE, Parts |-> parts]

\* The runs of the agent on one user message.
AgentRuns ==
  { <<>>,
    <<ErrEvent>>,
    <<Event(<<Part(<<"a">>, NoFunctionCall)>>), Event(<<Part(<<"b", " ">>, NoFunctionCall)>>)>>,
    <<NilEvent, NoContentEvent,
      Event(<<NilPart, Part(<<"a">>, NoFunctionCall), Part(<<>>, FunctionCall("f", NilArgs))>>),
      Event(<<Part(<<"b">>, FunctionCall("g", [nil |-> FALSE, m |-> ("a" :> <<"int", 1>>)]))>>)>>,
    <<Event(<<Part(<<"a">>, NoFunctionCall)>>), ErrEvent,
      Event(<<Part(<<"b">>, NoFunctionCall)>>)>> }

\* ConversationTurn: its role and its content.
Turns == [Role : {"user", "model"}, Content : {<<"a">>, <<"b">>}]

\* runAgentAndCollectEvents, lines 312-335: the loop over the parts of one
\* event. acc is <<fullResponse, toolCalls>>.
RECURSIVE PartLoop(_, _, _)
PartLoop(parts, i, acc) ==
  IF i > Len(parts) THEN acc
  ELSE LET part == parts[i]
       IN IF part.nil THEN PartLoop(parts, i + 1, acc)
          ELSE LET fullResponse == IF part.Text # <<>> THEN acc[1] \o part.Text ELSE acc[1]
                   toolCalls ==
                     IF ~part.FunctionCall.nil
                     THEN Append(acc[2],
                                 [ToolName |-> part.FunctionCall.Name,
                                  Arguments |-> IF part.FunctionCall.Args.nil THEN EmptyArgs
                                                ELSE part.FunctionCall.Args])
                     ELSE acc[2]
               IN PartLoop(parts, i + 1, <<fullResponse, toolCalls>>)

\* runAgentAndCollectEvents, lines 306-337: the loop over the events of the
\* run; an error ends it.
RECURSIVE EventLoop(_, _, _)
EventLoop(run, i, acc) ==
  IF i > Len(run) THEN [err |-> FALSE, response |-> acc[1], toolCalls |-> acc[2]]
  ELSE IF run[i].err THEN [err |-> TRUE, response |-> <<>>, toolCalls |-> <<>>]
  ELSE IF ~run[i].nil /\ run[i].content
  THEN EventLoop(run, i + 1, PartLoop(run[i].Parts, 1, acc))
  ELSE EventLoop(run, i + 1, acc)

runAgentAndCollectEvents(run) == EventLoop(run, 1, <<<<>>, <<>>>>)

\* What processTurn returns: an error, no invocation, or an invocation.
NoInvocation == [UserQuery |-> <<>>, AgentResponse |-> <<>>, ToolCalls |-> <<>>, SessionID |-> 0]
TurnError == [err |-> TRUE, nil |-> TRUE, invocation |-> NoInvocation]
TurnSkipped == [err |-> FALSE, nil |-> TRUE, invocation |-> NoInvocation]

\* processTurn running the agent on the turns of every role.
processTurnAnyRole(sessionID, turn, run) ==
  LET collected == runAgentAndCollectEvents(run)
  IN IF collected.err THEN TurnError
     ELSE [err |-> FALSE, nil |-> FALSE,
           invocation |-> [UserQuery |-> turn.Content, AgentResponse |-> collected.response,
                           ToolCalls |-> collected.toolCalls, SessionID |-> sessionID]]

\* processTurn: run is what the agent yields when it is run on the turn.
processTurn(sessionID, turn, run) ==
  IF turn.Role # "user" THEN TurnSkipped
  ELSE LET collected == runAgentAndCollectEvents(run)
       IN IF collected.err THEN TurnError
          ELSE [err |-> FALSE, nil |-> FALSE,
                invocation |-> [UserQuery |-> turn.Content,
                                AgentResponse |-> collected.response,
                                ToolCalls |-> collected.toolCalls,
                                SessionID |-> sessionID]]

\* runConversation, lines 243-252: the loop over the turns.
RECURSIVE TurnLoop(_, _, _, _, _)
TurnLoop(sessionID, conversation, runs, i, invocations) ==
  IF i > Len(conversation) THEN [err |-> FALSE, invocations |-> invocations]
  ELSE LET turn == processTurn(sessionID, conversation[i], runs[i])
       IN IF turn.err THEN [err |-> TRUE, invocations |-> <<>>]
          ELSE TurnLoop(sessionID, conversation, runs, i + 1,
                        IF turn.nil THEN invocations
                        ELSE Append(invocations, turn.invocation))

\* runConversation with the invocations it returns: replay is the runner,
\* the session id, the conversation, what the session service answers and
\* the run of the agent on every turn.
runConversationTurns(replay) ==
  IF replay.agentRunner = Nil THEN [err |-> FALSE, invocations |-> <<>>]
  ELSE IF ~createSession(replay.sessionErr) THEN [err |-> TRUE, invocations |-> <<>>]
  ELSE TurnLoop(replay.sessionID, replay.conversation, replay.runs, 1, <<>>)

\* The replays: the agent is run only on user turns.
Replays ==
  UNION { [agentRunner : {Nil, "agent"}, sessionID : {1, 2}, sessionErr : SessionErrors,
           conversation : {conversation},
           runs : { runs \in [1..Len(conversation) -> AgentRuns] :
                      \A i \in 1..Len(conversation) :
                        conversation[i].Role # "user" => runs[i] = <<>> }] :
          conversation \in SeqsUpTo(Turns, MaxTurns) }

\* ------------------------------------------- the expected invocations
\* convertExpectedToolCalls: the calls with their names and arguments.
convertExpectedToolCalls(expected) ==
  [i \in 1..Len(expected) |->
     [ToolName |-> expected[i].ToolName, Arguments |-> expected[i].Arguments]]

\* buildExpectedInvocations deriving an invocation from the expected tool
\* calls too.
BuildExpectedInvocationsFromToolCalls(evalCase) ==
  IF evalCase.ExpectedResponse # <<>> \/ Len(evalCase.ExpectedToolCalls) > 0
  THEN <<[AgentResponse |-> evalCase.ExpectedResponse,
          ToolCalls |-> convertExpectedToolCalls(evalCase.ExpectedToolCalls)]>>
  ELSE <<>>

\* buildExpectedInvocations, with the invocation it builds.
BuildExpectedInvocations(evalCase) ==
  IF evalCase.ExpectedResponse # <<>>
  THEN <<[AgentResponse |-> evalCase.ExpectedResponse,
          ToolCalls |-> convertExpectedToolCalls(evalCase.ExpectedToolCalls)]>>
  ELSE <<>>

\* The expectations of a case, and the invocations its replay gave.
ExpectedToolCallSeqs ==
  {<<>>, <<[ToolName |-> "f", Arguments |-> [nil |-> FALSE, m |-> ("a" :> <<"int", 1>>)]]>>}
ExpectingCases == [ExpectedResponse : {<<>>, <<"a">>}, ExpectedToolCalls : ExpectedToolCallSeqs]
ReplayedInvocations ==
  [AgentResponse : {<<>>, <<"a">>},
   ToolCalls : ExpectedToolCallSeqs
                 \cup {<<[ToolName |-> "f",
                          Arguments |-> [nil |-> FALSE, m |-> ("a" :> <<"int", 2>>)]]>>}]

\* What is evaluated, and on what: the two comparisons and the scoring of
\* one invocation on their own, and Evaluate for every metric.
EvaluatorInputs(kind) ==
  IF kind = "calculateROUGE1" THEN [actual : Texts, expected : Texts]
  ELSE IF kind = "trajectoryMatches" THEN [actual : ToolCallSeqs, expected : ToolCallSeqs]
  ELSE IF kind = "evaluateInvocation" THEN [invocation : JudgedInvocations]
  ELSE IF kind = "runConversation" THEN Replays
  ELSE IF kind = "runEvalCase"
  THEN [evalCase : ExpectingCases, metricType : MatchMetrics,
        Actual : SeqsUpTo(ReplayedInvocations, MaxInvocations),
        Criterion : CriterionThresholds]
  ELSE IF kind = "createEvaluator"
  THEN [metricType : JudgeMetrics, criterion : Criteria, config : JudgeConfigs]
  ELSE IF kind = MetricResponseMatch
  THEN EvaluateParams(SeqsUpTo(ResponseInvocations, MaxInvocations),
                      SeqsUpTo(ResponseInvocations, MaxInvocations), {0})
  ELSE IF kind = MetricToolTrajectoryAvgScore
  THEN EvaluateParams(SeqsUpTo(ToolInvocations, MaxInvocations),
                      SeqsUpTo(ToolInvocations, MaxInvocations), {0})
  ELSE EvaluateParams(SeqsUpTo(JudgedInvocations, MaxInvocations),
                      SeqsUpTo({[AgentResponse |-> <<"a">>, ToolCalls |-> <<>>]}, 1),
                      {0, 1})

EvaluatorKinds ==
  {"calculateROUGE1", "trajectoryMatches", "evaluateInvocation", "createEvaluator",
   "runConversation", "runEvalCase"} \cup Metrics

\* ------------------------------------------------------------------ state
VARIABLES
  storage,            \* Runner.storage: Nil or "storage"
  agentRunner,        \* Runner.agentRunner: Nil or "agent"
  lastLLMEvalTime,    \* Runner.lastLLMEvalTime: 0 is the zero time
  evalSet,            \* the evalSet argument (Nil or a suite)
  config,             \* the config argument (Nil or a configuration)
  ctxDone,            \* the caller's context is cancelled
  pc,                 \* where RunEvalSet stands
  result,             \* RunEvalSet's result container
  caseIdx,            \* the index of the case the loop of RunEvalSet is at
  actualInvocations,  \* runEvalCase: len(actualInvocations)
  expectedInvocations,\* runEvalCase: len(expectedInvocations)
  metricResults,      \* runEvalCase: the metricResults map
  critIdx,            \* runEvalCase: the index of the criterion the loop is at
  lastOutcome,        \* the branch the last criterion took
  criterionResults,   \* runEvalCase: the result each criterion stored, in order
  saveCalls,          \* how often line 122 (the save) was executed
  saved,              \* the storage's calls: what it was handed, and whether it failed
  replayFailed,       \* the indices of the cases whose replay failed
  ret,                \* what RunEvalSet returned
  runnerConfig,       \* the RunnerConfig that NewRunner was given
  rateLimitDelay,     \* Runner.rateLimitDelay, in seconds
  evalSemaphore,      \* Runner.evalSemaphore: its size and the permits taken (cur)
  now,                \* the clock (time.Now), in seconds
  callers,            \* the goroutines that evaluate judge-based metrics on the Runner
  calls,              \* how many calls of applyRateLimit were started
  stamps,             \* the times the successful passes wrote to lastLLMEvalTime
  evaluator,          \* what is evaluated: a metric's Evaluate, or one of its functions
  params,             \* the arguments it is evaluated on
  returned,           \* what it returned
  recorded,           \* the MetricResult runEvalCase stored for it
  maxIterations,      \* loopAgent.maxIterations
  subAgents,          \* the LoopAgent's sub-agents: what each one's Run yields
  count,              \* loopAgent.Run: count
  shouldExit,         \* loopAgent.Run: shouldExit
  subIdx,             \* loopAgent.Run: the index of the sub-agent the pass is at
  evIdx,              \* loopAgent.Run: the index of the next event of that sub-agent's run
  loopPc,             \* where loopAgent.Run stands
  iteration,          \* the number of passes begun
  yielded,            \* the events handed to the consumer so far
  started,            \* the runs of sub-agents started so far, as <<pass, sub-agent>>
  stopped,            \* the consumer stopped iterating (yield returned false)
  fn,                 \* the function of the LLM agent that is applied
  fnArgs,             \* its arguments
  fnRet,              \* what it returned
  serviceMu,          \* inMemoryService.mu
  sessions,           \* inMemoryService.sessions: the keys it holds
  sessionMu,          \* session.mu
  sessionEvents,      \* len(session.events)
  sessionState,       \* session.state: the keys it holds
  updatedAt,          \* session.updatedAt
  threads,            \* the goroutines that call the service and the session
  lastAccess,         \* the last access to a guarded field, and the locks held then
  replaying,          \* runConversation: the Runner's services, the conversation, the runs
  replayPc,           \* where runConversation stands
  turnIdx,            \* runConversation: the index of the turn the loop is at
  runPos,             \* runAgentAndCollectEvents: the index of the next event of the run
  replayInvocations,  \* runConversation: the turns whose invocations were collected
  replayLog,          \* what runConversation did so far, in order
  stored,             \* inMemoryService.sessions: the session stored under each key
  objects,            \* the sessions Create has made, by the order they were made in
  deletedKeys,        \* the keys Delete removed and no Create has stored since
  response            \* what the last call of the service returned

vars == <<storage, agentRunner, lastLLMEvalTime, evalSet, config, ctxDone, pc, result,
          caseIdx, actualInvocations, expectedInvocations, metricResults, critIdx,
          lastOutcome, criterionResults, saveCalls, saved, replayFailed, ret, runnerConfig,
          rateLimitDelay, evalSemaphore, now, callers, calls, stamps, evaluator,
          params, returned, recorded, maxIterations, subAgents, count, shouldExit,
          subIdx, evIdx, loopPc, iteration, yielded, started, stopped, fn, fnArgs, fnRet,
          serviceMu, sessions, sessionMu, sessionEvents, sessionState, updatedAt,
          threads, lastAccess, replaying, replayPc, turnIdx, runPos, replayInvocations,
          replayLog, stored, objects, deletedKeys, response>>

runnerVars == <<storage, agentRunner, runnerConfig, rateLimitDelay, evalSemaphore>>
limiterVars == <<now, callers, calls, stamps>>
evaluatorVars == <<evaluator, params, returned, recorded>>
loopVars == <<maxIterations, subAgents, count, shouldExit, subIdx, evIdx, loopPc,
              iteration, yielded, started, stopped>>
llmVars == <<fn, fnArgs, fnRet>>
sessionVars == <<serviceMu, sessions, sessionMu, sessionEvents, sessionState, updatedAt,
                 threads, lastAccess>>
replayVars == <<replaying, replayPc, turnIdx, runPos, replayInvocations, replayLog>>
storeVars == <<stored, objects, deletedKeys, response>>
agentVars == <<loopVars, llmVars, sessionVars, replayVars, storeVars>>
inputVars == <<evalSet, config>>
caseVars == <<actualInvocations, expectedInvocations, metricResults, critIdx, lastOutcome,
              criterionResults>>

\* Identifiers: the suite's, and the one of the i-th case.
SuiteID == <<"set">>
CaseID(i) == <<"case", i>>

\* A pointer argument is a record whose field nil says whether it is nil.
NilEvalSet == [nil |-> TRUE, ID |-> <<>>, EvalCases |-> <<>>]
NilConfig == [nil |-> TRUE, Criteria |-> <<>>]
NilResult == [nil |-> TRUE, EvalSetID |-> <<>>, EvalCaseResults |-> <<>>,
              OverallScore |-> ZeroScore, Status |-> ""]

\* The conversation and the expectations of a case are drawn when the case
\* is replayed, the one time the Runner reads them.
EvalSets ==
  { [nil |-> FALSE, ID |-> SuiteID, EvalCases |-> [i \in 1..n |-> [ID |-> CaseID(i)]]] :
      n \in 0..MaxCases }

EvalConfigs ==
  { [nil |-> FALSE, Criteria |-> [i \in 1..Len(s) |-> [MetricType |-> s[i]]]] :
      s \in SeqsUpTo(MetricTypes, MaxCriteria) }

\* Outside runEvalCase its locals do not exist.
NoCase ==
  /\ actualInvocations = 0
  /\ expectedInvocations = 0
  /\ metricResults = EmptyMap
  /\ critIdx = 0
  /\ lastOutcome = ""
  /\ criterionResults = <<>>

\* RunnerConfig: the two fields that configure the rate limiter. The zero
\* value of a field is what a caller who does not set it passes.
RateLimitDelays == {0, 2}
Capacities == {0, 1, 2}
RunnerConfigs == [RateLimitDelay : RateLimitDelays, MaxConcurrentEvals : Capacities]

\* The delay the comment on RunnerConfig.RateLimitDelay names as the default.
DefaultRateLimitDelay == 6

\* NewRunner, the fields of the rate limiter: maxConcurrent is 1 for a value
\* <= 0, rateLimitDelay is copied from the configuration as it is.
NewRunner(cfg) ==
  [ rateLimitDelay |-> cfg.RateLimitDelay,
    evalSemaphore  |-> [ size |-> IF cfg.MaxConcurrentEvals <= 0
                                  THEN 1 ELSE cfg.MaxConcurrentEvals,
                         cur  |-> 0 ] ]

\* RegisterAgent: NewRunner with nothing but the agent runner set.
RegisterAgent == [RateLimitDelay |-> 0, MaxConcurrentEvals |-> 0]

\* The goroutines that call runEvalCase on one Runner.
Callers == 1..MaxCallers

\* A goroutine outside applyRateLimit and Evaluate; err is what its last
\* call of applyRateLimit returned ("none" before the first call), wake the
\* time its sleep ends (kept after a cancelled sleep until the next call).
IdleCaller == [pc |-> "idle", ctxDone |-> FALSE, holds |-> FALSE, wake |-> 0, err |-> "none"]

\* No goroutine has called applyRateLimit; the clock stands at second 1
\* (0 is the zero time.Time).
LimiterIdle ==
  /\ now = 1
  /\ callers = [c \in Callers |-> IdleCaller]
  /\ calls = 0
  /\ stamps = <<>>

\* Nothing returned, nothing stored.
NotReturned ==
  [done |-> FALSE, err |-> FALSE, Status |-> "", Score |-> ZeroScore, judgeCalls |-> 0,
   passes |-> <<>>]
NoMetricResult == MetricResult("", "", ZeroScore)

\* No evaluator is run on its own.
EvaluatorIdle ==
  /\ evaluator = ""
  /\ params = <<>>
  /\ returned = NotReturned
  /\ recorded = NoMetricResult

\* No LoopAgent runs.
LoopIdle ==
  /\ maxIterations = 0
  /\ subAgents = <<>>
  /\ count = 0
  /\ shouldExit = FALSE
  /\ subIdx = 0
  /\ evIdx = 0
  /\ loopPc = "idle"
  /\ iteration = 0
  /\ yielded = <<>>
  /\ started = <<>>
  /\ stopped = FALSE

\* No function of the LLM agent is applied.
LlmIdle ==
  /\ fn = ""
  /\ fnArgs = <<>>
  /\ fnRet = <<>>

\* A sync.RWMutex: the goroutine that holds it for writing (0: none) and
\* the goroutines that hold it for reading.
Unlocked == [writer |-> 0, readers |-> {}]
NoAccess == [thread |-> 0, field |-> "", write |-> FALSE, guarded |-> TRUE]

\* No session service is in use.
SessionIdle ==
  /\ serviceMu = Unlocked
  /\ sessions = {}
  /\ sessionMu = Unlocked
  /\ sessionEvents = 0
  /\ sessionState = {}
  /\ updatedAt = 0
  /\ threads = <<>>
  /\ lastAccess = NoAccess

\* No conversation is replayed step by step.
ReplayIdle ==
  /\ replaying = <<>>
  /\ replayPc = "idle"
  /\ turnIdx = 0
  /\ runPos = 0
  /\ replayInvocations = <<>>
  /\ replayLog = <<>>

\* The service is not called.
StoreIdle ==
  /\ stored = <<>>
  /\ objects = <<>>
  /\ deletedKeys = {}
  /\ response = <<>>

AgentsIdle == LoopIdle /\ LlmIdle /\ SessionIdle /\ ReplayIdle /\ StoreIdle

\* NewRunner (or RegisterAgent, which leaves Storage nil), then the call of
\* RunEvalSet with its arguments.
Init ==
  /\ AgentsIdle
  /\ EvaluatorIdle
  /\ runnerConfig = RegisterAgent
  /\ rateLimitDelay = NewRunner(runnerConfig).rateLimitDelay
  /\ evalSemaphore = NewRunner(runnerConfig).evalSemaphore
  /\ LimiterIdle
  /\ storage \in {Nil, "storage"}
  /\ agentRunner \in {Nil, "agent"}
  /\ lastLLMEvalTime = 0
  /\ evalSet \in {NilEvalSet} \cup EvalSets
  /\ config \in {NilConfig} \cup EvalConfigs
  /\ ctxDone = FALSE
  /\ pc = "RunEvalSet"
  /\ result = NilResult
  /\ caseIdx = 0
  /\ NoCase
  /\ saveCalls = 0
  /\ saved = <<>>
  /\ replayFailed = {}
  /\ ret = [result |-> NilResult, err |-> ""]

Return(res, err) == [result |-> res, err |-> err]

\* RunEvalSet, lines 78-94: the nil checks and the result container.
RunEvalSetBegin ==
  /\ pc = "RunEvalSet"
  /\ IF evalSet.nil
     THEN /\ ret' = Return(NilResult, "eval set is nil")
          /\ pc' = "returned"
          /\ UNCHANGED <<result, caseIdx>>
     ELSE IF config.nil
     THEN /\ ret' = Return(NilResult, "eval config is nil")
          /\ pc' = "returned"
          /\ UNCHANGED <<result, caseIdx>>
     ELSE /\ result' = [nil |-> FALSE, EvalSetID |-> evalSet.ID, EvalCaseResults |-> <<>>,
                        OverallScore |-> ZeroScore, Status |-> ""]
          /\ caseIdx' = 1
          /\ pc' = "cases"
          /\ UNCHANGED ret
  /\ UNCHANGED <<runnerVars, inputVars, limiterVars, evaluatorVars, agentVars, lastLLMEvalTime, ctxDone, caseVars, saveCalls,
                 saved, replayFailed>>

\* The synthetic result RunEvalSet builds for a case whose runEvalCase failed.
ErrorCaseResult(evalCase) ==
  [EvalSetID |-> evalSet.ID, EvalID |-> evalCase.ID, SessionID |-> 0,
   FinalEvalStatus |-> EvalStatusError,
   OverallMetricResults |-> Put(EmptyMap, ErrorKey, MetricResult("", EvalStatusError, 0))]

\* runEvalCase, lines 130-150: the replay of the case's conversation succeeds.
ReplayCase ==
  /\ pc = "cases"
  /\ caseIdx <= Len(evalSet.EvalCases)
  /\ \E conversation \in Conversations, sessionErr \in SessionErrors,
        expectedResponse \in {"", "response"} :
       \E failAt \in 0..Len(conversation) :
         LET replay == runConversation(agentRunner, conversation, sessionErr, failAt)
         IN /\ ~replay.err
            /\ actualInvocations' = replay.invocations
            /\ expectedInvocations' =
                 buildExpectedInvocations([ExpectedResponse |-> expectedResponse])
  /\ metricResults' = EmptyMap
  /\ critIdx' = 1
  /\ lastOutcome' = ""
  /\ criterionResults' = <<>>
  /\ pc' = "criteria"
  /\ UNCHANGED <<runnerVars, inputVars, limiterVars, evaluatorVars, agentVars, lastLLMEvalTime, ctxDone, result, caseIdx,
                 saveCalls, saved, replayFailed, ret>>

\* ReplayCaseFails with the loop over the cases left at the failing case.
ReplayCaseFailsAbortsSuite ==
  /\ pc = "cases"
  /\ caseIdx <= Len(evalSet.EvalCases)
  /\ \E conversation \in Conversations, sessionErr \in SessionErrors :
       \E failAt \in 0..Len(conversation) :
         runConversation(agentRunner, conversation, sessionErr, failAt).err
  /\ result' = [result EXCEPT !.EvalCaseResults =
                  Append(@, ErrorCaseResult(evalSet.EvalCases[caseIdx]))]
  /\ caseIdx' = Len(evalSet.EvalCases) + 1
  /\ replayFailed' = replayFailed \cup {caseIdx}
  /\ UNCHANGED <<runnerVars, inputVars, limiterVars, evaluatorVars, agentVars, lastLLMEvalTime, ctxDone, pc, caseVars,
                 saveCalls, saved, ret>>

\* runEvalCase, lines 137-140, and RunEvalSet, lines 99-113: the replay fails
\* and the case is reported by the synthetic result.
ReplayCaseFails ==
  /\ pc = "cases"
  /\ caseIdx <= Len(evalSet.EvalCases)
  /\ \E conversation \in Conversations, sessionErr \in SessionErrors :
       \E failAt \in 0..Len(conversation) :
         runConversation(agentRunner, conversation, sessionErr, failAt).err
  /\ result' = [result EXCEPT !.EvalCaseResults =
                  Append(@, ErrorCaseResult(evalSet.EvalCases[caseIdx]))]
  /\ caseIdx' = caseIdx + 1
  /\ replayFailed' = replayFailed \cup {caseIdx}
  /\ UNCHANGED <<runnerVars, inputVars, limiterVars, evaluatorVars, agentVars, lastLLMEvalTime, ctxDone, pc, caseVars,
                 saveCalls, saved, ret>>

InCriteria == pc = "criteria" /\ critIdx <= Len(config.Criteria)
criterion == config.Criteria[critIdx]

\* CreateEvaluatorFails with the loop over the criteria left (break, not continue).
CreateEvaluatorFailsAbortsCase ==
  /\ InCriteria
  /\ ~createEvaluator(GetMetricType(criterion))
  /\ metricResults' = Put(metricResults, GetMetricType(criterion),
                          MetricResult(GetMetricType(criterion), EvalStatusError, 0))
  /\ criterionResults' = Append(criterionResults,
                                MetricResult(GetMetricType(criterion), EvalStatusError, 0))
  /\ critIdx' = Len(config.Criteria) + 1
  /\ lastOutcome' = "createFailed"
  /\ UNCHANGED <<runnerVars, inputVars, limiterVars, evaluatorVars, agentVars, lastLLMEvalTime, ctxDone, pc, result, caseIdx,
                 actualInvocations, expectedInvocations, saveCalls, saved, replayFailed,
                 ret>>

\* runEvalCase, lines 153-165: no evaluator can be created for the criterion.
CreateEvaluatorFails ==
  /\ InCriteria
  /\ ~createEvaluator(GetMetricType(criterion))
  /\ metricResults' = Put(metricResults, GetMetricType(criterion),
                          MetricResult(GetMetricType(criterion), EvalStatusError, 0))
  /\ criterionResults' = Append(criterionResults,
                                MetricResult(GetMetricType(criterion), EvalStatusError, 0))
  /\ critIdx' = critIdx + 1
  /\ lastOutcome' = "createFailed"
  /\ UNCHANGED <<runnerVars, inputVars, limiterVars, evaluatorVars, agentVars, lastLLMEvalTime, ctxDone, pc, result, caseIdx,
                 actualInvocations, expectedInvocations, saveCalls, saved, replayFailed,
                 ret>>

\* runEvalCase, lines 167-177, with applyRateLimit returning an error: the
\* permit is free in a sequential run, so only a cancelled context makes
\* Acquire or the sleep fail; lastLLMEvalTime is not written.
RateLimitFails ==
  /\ InCriteria
  /\ createEvaluator(GetMetricType(criterion))
  /\ isLLMBasedMetric(GetMetricType(criterion))
  /\ ctxDone
  /\ calls' = calls + 1
  /\ metricResults' = Put(metricResults, GetMetricType(criterion),
                          MetricResult(GetMetricType(criterion), EvalStatusError, 0))
  /\ criterionResults' = Append(criterionResults,
                                MetricResult(GetMetricType(criterion), EvalStatusError, 0))
  /\ critIdx' = critIdx + 1
  /\ lastOutcome' = "rateLimitFailed"
  /\ UNCHANGED <<runnerVars, inputVars, now, callers, stamps, evaluatorVars, agentVars, lastLLMEvalTime, ctxDone, pc, result, caseIdx,
                 actualInvocations, expectedInvocations, saveCalls, saved, replayFailed,
                 ret>>

\* EvaluateCriterion with applyRateLimit called for every metric.
EvaluateCriterionAlwaysRateLimited ==
  /\ InCriteria
  /\ createEvaluator(GetMetricType(criterion))
  /\ lastLLMEvalTime' = lastLLMEvalTime + 1
  /\ calls' = calls + 1
  /\ \E out \in EvaluateOutcomes(GetMetricType(criterion), actualInvocations,
                                 expectedInvocations) :
       /\ metricResults' =
            Put(metricResults, GetMetricType(criterion),
                IF out.err
                THEN MetricResult(GetMetricType(criterion), EvalStatusError, 0)
                ELSE MetricResult(GetMetricType(criterion), out.Status, out.Score))
       /\ criterionResults' =
            Append(criterionResults,
                   IF out.err
                   THEN MetricResult(GetMetricType(criterion), EvalStatusError, 0)
                   ELSE MetricResult(GetMetricType(criterion), out.Status, out.Score))
       /\ lastOutcome' = IF out.err THEN "evaluateFailed" ELSE "evaluated"
  /\ critIdx' = critIdx + 1
  /\ UNCHANGED <<runnerVars, inputVars, now, callers, stamps, evaluatorVars, agentVars, ctxDone, pc, result, caseIdx,
                 actualInvocations, expectedInvocations, saveCalls, saved, replayFailed,
                 ret>>

\* runEvalCase, lines 167-199: applyRateLimit (for a judge-based metric)
\* returns nil and stamps lastLLMEvalTime, then Evaluate runs; its error is
\* turned into an Error result, and the result is stored under the metric name.
EvaluateCriterion ==
  /\ InCriteria
  /\ createEvaluator(GetMetricType(criterion))
  /\ lastLLMEvalTime' = IF isLLMBasedMetric(GetMetricType(criterion))
                        THEN lastLLMEvalTime + 1 ELSE lastLLMEvalTime
  /\ calls' = IF isLLMBasedMetric(GetMetricType(criterion)) THEN calls + 1 ELSE calls
  /\ \E out \in EvaluateOutcomes(GetMetricType(criterion), actualInvocations,
                                 expectedInvocations) :
       /\ metricResults' =
            Put(metricResults, GetMetricType(criterion),
                IF out.err
                THEN MetricResult(GetMetricType(criterion), EvalStatusError, 0)
                ELSE MetricResult(GetMetricType(criterion), out.Status, out.Score))
       /\ criterionResults' =
            Append(criterionResults,
                   IF out.err
                   THEN MetricResult(GetMetricType(criterion), EvalStatusError, 0)
                   ELSE MetricResult(GetMetricType(criterion), out.Status, out.Score))
       /\ lastOutcome' = IF out.err THEN "evaluateFailed" ELSE "evaluated"
  /\ critIdx' = critIdx + 1
  /\ UNCHANGED <<runnerVars, inputVars, now, callers, stamps, evaluatorVars, agentVars, ctxDone, pc, result, caseIdx,
                 actualInvocations, expectedInvocations, saveCalls, saved, replayFailed,
                 ret>>

\* runEvalCase, lines 202-229, and RunEvalSet, line 113: the case's status
\* is folded from its metric results and the case result is appended.
FinishCase ==
  /\ pc = "criteria"
  /\ critIdx > Len(config.Criteria)
  /\ result' = [result EXCEPT !.EvalCaseResults =
       Append(@, [EvalSetID |-> evalSet.EvalCases[caseIdx].ID,
                  EvalID |-> evalSet.EvalCases[caseIdx].ID,
                  SessionID |-> caseIdx,
                  FinalEvalStatus |-> determineCaseStatus(metricResults),
                  OverallMetricResults |-> metricResults])]
  /\ caseIdx' = caseIdx + 1
  /\ pc' = "cases"
  /\ actualInvocations' = 0
  /\ expectedInvocations' = 0
  /\ metricResults' = EmptyMap
  /\ critIdx' = 0
  /\ lastOutcome' = ""
  /\ criterionResults' = <<>>
  /\ UNCHANGED <<runnerVars, inputVars, limiterVars, evaluatorVars, agentVars, lastLLMEvalTime, ctxDone, saveCalls, saved,
                 replayFailed, ret>>

\* RunEvalSet, lines 116-119: the overall score and status.
Aggregate ==
  /\ pc = "cases"
  /\ caseIdx > Len(evalSet.EvalCases)
  /\ result' = [result EXCEPT
                  !.OverallScore = calculateOverallScore(result.EvalCaseResults),
                  !.Status = determineOverallStatus(result.EvalCaseResults)]
  /\ pc' = "save"
  /\ UNCHANGED <<runnerVars, inputVars, limiterVars, evaluatorVars, agentVars, lastLLMEvalTime, ctxDone, caseIdx, caseVars,
                 saveCalls, saved, replayFailed, ret>>

\* SaveEvalSetResult with the storage's error swallowed.
SaveEvalSetResultSwallowsError ==
  /\ pc = "save"
  /\ saveCalls' = saveCalls + 1
  /\ IF storage = Nil
     THEN /\ pc' = "panicked"
          /\ UNCHANGED <<saved, ret>>
     ELSE /\ pc' = "returned"
          /\ \E saveErr \in BOOLEAN :
               /\ saved' = Append(saved, [result |-> result, failed |-> saveErr])
               /\ ret' = Return(result, "")
  /\ UNCHANGED <<runnerVars, inputVars, limiterVars, evaluatorVars, agentVars, lastLLMEvalTime, ctxDone, result, caseIdx, caseVars,
                 replayFailed>>

\* RunEvalSet, lines 121-126: the result is handed to the storage.  A nil
\* storage makes the method call on the nil interface panic.
SaveEvalSetResult ==
  /\ pc = "save"
  /\ saveCalls' = saveCalls + 1
  /\ IF storage = Nil
     THEN /\ pc' = "panicked"
          /\ UNCHANGED <<saved, ret>>
     ELSE /\ pc' = "returned"
          /\ \E saveErr \in BOOLEAN :
               /\ saved' = Append(saved, [result |-> result, failed |-> saveErr])
               /\ ret' = IF saveErr
                         THEN Return(NilResult, "failed to save eval set result")
                         ELSE Return(result, "")
  /\ UNCHANGED <<runnerVars, inputVars, limiterVars, evaluatorVars, agentVars, lastLLMEvalTime, ctxDone, result, caseIdx, caseVars,
                 replayFailed>>

\* The caller cancels the context while RunEvalSet runs.
CancelContext ==
  /\ pc \notin {"returned", "panicked"}
  /\ ~ctxDone
  /\ ctxDone' = TRUE
  /\ UNCHANGED <<runnerVars, inputVars, limiterVars, evaluatorVars, agentVars, lastLLMEvalTime, pc, result, caseIdx, caseVars,
                 saveCalls, saved, replayFailed, ret>>

Next ==
  \/ RunEvalSetBegin
  \/ ReplayCase
  \/ ReplayCaseFails
  \/ CreateEvaluatorFails
  \/ RateLimitFails
  \/ EvaluateCriterion
  \/ FinishCase
  \/ Aggregate
  \/ SaveEvalSetResult
  \/ CancelContext

Spec == Init /\ [][Next]_vars

\* ------------------------------------------------------------ rate limiter
\* Several goroutines run judge-based criteria on one Runner (concurrent
\* calls of RunEvalSet): each calls applyRateLimit and then Evaluate, as
\* lines 167-190 of runEvalCase do. The steps of applyRateLimit are the
\* actions; the variables of a single run of RunEvalSet stand still.
runVars == <<storage, agentRunner, evalSet, config, ctxDone, pc, result, caseIdx,
             caseVars, saveCalls, saved, replayFailed, ret>>

RunIdle ==
  /\ storage = "storage"
  /\ agentRunner = "agent"
  /\ evalSet = NilEvalSet
  /\ config = NilConfig
  /\ ctxDone = FALSE
  /\ pc = "RunEvalSet"
  /\ result = NilResult
  /\ caseIdx = 0
  /\ NoCase
  /\ saveCalls = 0
  /\ saved = <<>>
  /\ replayFailed = {}
  /\ ret = [result |-> NilResult, err |-> ""]

\* NewRunner with any RunnerConfig; nobody has called the Runner yet.
InitLimiter ==
  /\ AgentsIdle
  /\ RunIdle
  /\ runnerConfig \in RunnerConfigs
  /\ rateLimitDelay = NewRunner(runnerConfig).rateLimitDelay
  /\ evalSemaphore = NewRunner(runnerConfig).evalSemaphore
  /\ lastLLMEvalTime = 0
  /\ LimiterIdle
  /\ EvaluatorIdle

\* semaphore.Weighted: Acquire takes a permit when one is free, Release
\* gives it back.
SemAcquire(sem) == [sem EXCEPT !.cur = @ + 1]
SemRelease(sem) == [sem EXCEPT !.cur = @ - 1]

\* runEvalCase, lines 167-169: a judge-based criterion, applyRateLimit is
\* called and stands at Acquire.
CallApplyRateLimit(c) ==
  /\ callers[c].pc = "idle"
  /\ calls < MaxCalls
  /\ calls' = calls + 1
  /\ callers' = [callers EXCEPT ![c].pc = "Acquire", ![c].wake = 0]
  /\ UNCHANGED <<runnerVars, runVars, inputVars, evaluatorVars, agentVars, lastLLMEvalTime, now, stamps>>

\* applyRateLimit, lines 498-501: Acquire returns nil, holding one permit.
\* (With a context that is already done Acquire may still succeed or fail,
\* depending on which of its cases is taken: both actions are enabled.)
Acquire(c) ==
  /\ callers[c].pc = "Acquire"
  /\ evalSemaphore.cur < evalSemaphore.size
  /\ evalSemaphore' = SemAcquire(evalSemaphore)
  /\ callers' = [callers EXCEPT ![c].pc = "read", ![c].holds = TRUE]
  /\ UNCHANGED <<storage, agentRunner, runnerConfig, rateLimitDelay, runVars, inputVars, evaluatorVars, agentVars,
                 lastLLMEvalTime, now, calls, stamps>>

\* applyRateLimit, lines 498-500: the context is cancelled while Acquire
\* waits (or before); Acquire returns the context's error, no permit taken.
AcquireCancelled(c) ==
  /\ callers[c].pc = "Acquire"
  /\ callers[c].ctxDone
  /\ callers' = [callers EXCEPT ![c].pc = "idle", ![c].err = "canceled"]
  /\ UNCHANGED <<runnerVars, runVars, inputVars, evaluatorVars, agentVars, lastLLMEvalTime, now, calls, stamps>>

\* What a read of lastLLMEvalTime may yield: the field is read and written
\* without a lock, so while another goroutine stands at its write (possible
\* with more than one permit) the read races with it and may see any value.
ReadLastLLMEvalTime(c) ==
  IF \E d \in Callers \ {c} : callers[d].pc = "write"
  THEN 0..MaxTime
  ELSE {lastLLMEvalTime}

\* applyRateLimit, lines 503-506: the zero test and the elapsed time; the
\* goroutine goes on to sleep out the rest of the delay, or to the write.
ReadElapsed(c) ==
  /\ callers[c].pc = "read"
  /\ \E last \in ReadLastLLMEvalTime(c) :
       callers' = IF last # 0 /\ now - last < rateLimitDelay
                  THEN [callers EXCEPT ![c].pc = "sleep",
                                       ![c].wake = now + (rateLimitDelay - (now - last))]
                  ELSE [callers EXCEPT ![c].pc = "write"]
  /\ UNCHANGED <<runnerVars, runVars, inputVars, evaluatorVars, agentVars, lastLLMEvalTime, now, calls, stamps>>

\* applyRateLimit, lines 507-509: time.After fires.
SleepOver(c) ==
  /\ callers[c].pc = "sleep"
  /\ now >= callers[c].wake
  /\ callers' = [callers EXCEPT ![c].pc = "write", ![c].wake = 0]
  /\ UNCHANGED <<runnerVars, runVars, inputVars, evaluatorVars, agentVars, lastLLMEvalTime, now, calls, stamps>>

\* The same without the deferred Release.
SleepCancelledKeepsPermit(c) ==
  /\ callers[c].pc = "sleep"
  /\ callers[c].ctxDone
  /\ callers' = [callers EXCEPT ![c].pc = "idle", ![c].err = "canceled"]
  /\ UNCHANGED <<runnerVars, runVars, inputVars, evaluatorVars, agentVars, lastLLMEvalTime, now, calls, stamps>>

\* applyRateLimit, lines 510-511 and the deferred Release of line 501: the
\* context is done during the sleep, its error is returned.
SleepCancelled(c) ==
  /\ callers[c].pc = "sleep"
  /\ callers[c].ctxDone
  /\ evalSemaphore' = SemRelease(evalSemaphore)
  /\ callers' = [callers EXCEPT ![c].pc = "idle", ![c].holds = FALSE,
                                ![c].err = "canceled"]
  /\ UNCHANGED <<storage, agentRunner, runnerConfig, rateLimitDelay, runVars, inputVars, evaluatorVars, agentVars,
                 lastLLMEvalTime, now, calls, stamps>>

\* applyRateLimit, lines 515-516 and the deferred Release: the time of the
\* call is written, the permit released, nil returned; runEvalCase goes on
\* to Evaluate (line 190).
WriteLastLLMEvalTime(c) ==
  /\ callers[c].pc = "write"
  /\ lastLLMEvalTime' = now
  /\ stamps' = Append(stamps, now)
  /\ evalSemaphore' = SemRelease(evalSemaphore)
  /\ callers' = [callers EXCEPT ![c].pc = "Evaluate", ![c].holds = FALSE, ![c].err = "nil"]
  /\ UNCHANGED <<storage, agentRunner, runnerConfig, rateLimitDelay, runVars, inputVars, evaluatorVars, agentVars,
                 now, calls>>

\* runEvalCase, line 190: the evaluator's judge calls are over.
EvaluateReturns(c) ==
  /\ callers[c].pc = "Evaluate"
  /\ callers' = [callers EXCEPT ![c].pc = "idle"]
  /\ UNCHANGED <<runnerVars, runVars, inputVars, evaluatorVars, agentVars, lastLLMEvalTime, now, calls, stamps>>

\* The context of goroutine c is cancelled.
Cancel(c) ==
  /\ ~callers[c].ctxDone
  /\ callers' = [callers EXCEPT ![c].ctxDone = TRUE]
  /\ UNCHANGED <<runnerVars, runVars, inputVars, evaluatorVars, agentVars, lastLLMEvalTime, now, calls, stamps>>

\* A second passes.
Tick ==
  /\ now < MaxTime
  /\ now' = now + 1
  /\ UNCHANGED <<runnerVars, runVars, inputVars, evaluatorVars, agentVars, lastLLMEvalTime, callers, calls, stamps>>

NextLimiter ==
  \/ \E c \in Callers : CallApplyRateLimit(c)
  \/ \E c \in Callers : Acquire(c)
  \/ \E c \in Callers : AcquireCancelled(c)
  \/ \E c \in Callers : ReadElapsed(c)
  \/ \E c \in Callers : SleepOver(c)
  \/ \E c \in Callers : SleepCancelled(c)
  \/ \E c \in Callers : WriteLastLLMEvalTime(c)
  \/ \E c \in Callers : EvaluateReturns(c)
  \/ \E c \in Callers : Cancel(c)
  \/ Tick

SpecLimiter == InitLimiter /\ [][NextLimiter]_vars

\* -------------------------------------------------------- evaluators, run
\* One evaluation: the evaluator of a metric is handed its params, returns,
\* and runEvalCase stores the result (lines 189-199); the two comparisons
\* and the scoring of one invocation are also run on their own. The Runner
\* and the rate limiter stand still.
notEvaluatorVars ==
  <<runnerVars, runVars, inputVars, lastLLMEvalTime, limiterVars, agentVars>>

InitEvaluators ==
  /\ AgentsIdle
  /\ RunIdle
  /\ runnerConfig = RegisterAgent
  /\ rateLimitDelay = NewRunner(runnerConfig).rateLimitDelay
  /\ evalSemaphore = NewRunner(runnerConfig).evalSemaphore
  /\ lastLLMEvalTime = 0
  /\ LimiterIdle
  /\ evaluator \in EvaluatorKinds
  /\ params \in EvaluatorInputs(evaluator)
  /\ returned = NotReturned
  /\ recorded = NoMetricResult

\* The return of Evaluate.
Returns(o) ==
  [done |-> TRUE, err |-> o.err, Status |-> o.Status, Score |-> o.Score,
   judgeCalls |-> o.judgeCalls, passes |-> o.passes]

CalculateROUGE1 ==
  /\ evaluator = "calculateROUGE1"
  /\ ~returned.done
  /\ returned' = Returns(EvaluateResult("", calculateROUGE1(params.actual, params.expected), 0))
  /\ UNCHANGED <<notEvaluatorVars, evaluator, params, recorded>>

\* trajectoryMatches returns a bool, kept in the Status field.
TrajectoryMatches ==
  /\ evaluator = "trajectoryMatches"
  /\ ~returned.done
  /\ returned' = Returns(EvaluateResult(
                     IF trajectoryMatches(params.actual, params.expected)
                     THEN "true" ELSE "false", ZeroScore, 0))
  /\ UNCHANGED <<notEvaluatorVars, evaluator, params, recorded>>

\* evaluateInvocation returns a score or an error; what the judge answered
\* is kept with it.
EvaluateInvocation ==
  /\ evaluator = "evaluateInvocation"
  /\ ~returned.done
  /\ \E o \in evaluateInvocation(params.invocation) :
       returned' = [Returns(IF o.ok THEN EvaluateResult("", o.score, o.judgeCalls)
                            ELSE EvaluateError(o.judgeCalls)) EXCEPT !.passes = <<o>>]
  /\ UNCHANGED <<notEvaluatorVars, evaluator, params, recorded>>

\* createEvaluator returns an evaluator, of which the judge's settings are
\* kept, or an error.
CreateEvaluatorForCriterion ==
  /\ evaluator = "createEvaluator"
  /\ ~returned.done
  /\ LET judge == CreateEvaluator(params.metricType,
                                  EvaluatorConfig(params.criterion, params.config))
     IN returned' = [done |-> TRUE, err |-> judge.err, ModelName |-> judge.ModelName,
                     NumSamples |-> judge.NumSamples]
  /\ UNCHANGED <<notEvaluatorVars, evaluator, params, recorded>>

\* runConversation returns the actual invocations, or an error.
RunConversation ==
  /\ evaluator = "runConversation"
  /\ ~returned.done
  /\ LET replayed == runConversationTurns(params)
     IN returned' = [done |-> TRUE, err |-> replayed.err, invocations |-> replayed.invocations]
  /\ UNCHANGED <<notEvaluatorVars, evaluator, params, recorded>>

\* runEvalCase, lines 142-199, for one criterion of a metric that compares
\* with the expected invocations: they are built from the case, Evaluate
\* runs on them and its result (an Error result for its error) is stored.
RunEvalCase ==
  /\ evaluator = "runEvalCase"
  /\ ~returned.done
  /\ LET expectedInvs == BuildExpectedInvocations(params.evalCase)
         evaluateParams == [Actual |-> params.Actual, Expected |-> expectedInvs,
                            Rubrics |-> 0, Criterion |-> params.Criterion]
         outcomes == IF params.metricType = MetricResponseMatch
                     THEN {ResponseMatchEvaluate(evaluateParams)}
                     ELSE IF params.metricType = MetricToolTrajectoryAvgScore
                     THEN {ToolTrajectoryEvaluate(evaluateParams)}
                     ELSE SemanticResponseMatchEvaluate(evaluateParams)
     IN \E o \in outcomes :
          /\ returned' = [done |-> TRUE, err |-> o.err, Status |-> o.Status,
                          Score |-> o.Score, Expected |-> expectedInvs]
          /\ recorded' = IF o.err
                         THEN MetricResult(params.metricType, EvalStatusError, ZeroScore)
                         ELSE MetricResult(params.metricType, o.Status, o.Score)
  /\ UNCHANGED <<notEvaluatorVars, evaluator, params>>

\* evaluator.Evaluate(ctx, params), runEvalCase line 190, for the evaluator
\* of one metric.
Evaluate(metricType, outcomes) ==
  /\ evaluator = metricType
  /\ ~returned.done
  /\ \E o \in outcomes : returned' = Returns(o)
  /\ UNCHANGED <<notEvaluatorVars, evaluator, params, recorded>>

EvaluateResponseMatch == Evaluate(MetricResponseMatch, {ResponseMatchEvaluate(params)})
EvaluateToolTrajectory ==
  Evaluate(MetricToolTrajectoryAvgScore, {ToolTrajectoryEvaluate(params)})
EvaluateSemanticResponseMatch ==
  Evaluate(MetricSemanticResponseMatch, SemanticResponseMatchEvaluate(params))
EvaluateResponseEvaluationScore ==
  Evaluate(MetricResponseEvaluationScore, ResponseEvaluationScoreEvaluate(params))
EvaluateResponseQuality == Evaluate(MetricResponseQuality, ResponseQualityEvaluate(params))
EvaluateSafety == Evaluate(MetricSafety, SafetyEvaluate(params))
EvaluateToolUseQuality == Evaluate(MetricToolUseQuality, ToolUseQualityEvaluate(params))
EvaluateHallucinations == Evaluate(MetricHallucinations, HallucinationsEvaluate(params))

\* The same recording an error of Evaluate as a failed metric.
RecordMetricResultErrorFails ==
  /\ evaluator \in Metrics
  /\ returned.done
  /\ recorded = NoMetricResult
  /\ recorded' = IF returned.err
                 THEN MetricResult(evaluator, EvalStatusFailed, ZeroScore)
                 ELSE MetricResult(evaluator, returned.Status, returned.Score)
  /\ UNCHANGED <<notEvaluatorVars, evaluator, params, returned>>

\* runEvalCase, lines 191-199: an error of Evaluate becomes a result with
\* status Error; the result is stored.
RecordMetricResult ==
  /\ evaluator \in Metrics
  /\ returned.done
  /\ recorded = NoMetricResult
  /\ recorded' = IF returned.err
                 THEN MetricResult(evaluator, EvalStatusError, ZeroScore)
                 ELSE MetricResult(evaluator, returned.Status, returned.Score)
  /\ UNCHANGED <<notEvaluatorVars, evaluator, params, returned>>

NextEvaluators ==
  \/ CalculateROUGE1
  \/ TrajectoryMatches
  \/ EvaluateInvocation
  \/ CreateEvaluatorForCriterion
  \/ RunConversation
  \/ RunEvalCase
  \/ EvaluateResponseMatch
  \/ EvaluateToolTrajectory
  \/ EvaluateSemanticResponseMatch
  \/ EvaluateResponseEvaluationScore
  \/ EvaluateResponseQuality
  \/ EvaluateSafety
  \/ EvaluateToolUseQuality
  \/ EvaluateHallucinations
  \/ RecordMetricResult

SpecEvaluators == InitEvaluators /\ [][NextEvaluators]_vars

\* The evaluation package stands still.
EvaluationIdle ==
  /\ RunIdle
  /\ runnerConfig = RegisterAgent
  /\ rateLimitDelay = NewRunner(runnerConfig).rateLimitDelay
  /\ evalSemaphore = NewRunner(runnerConfig).evalSemaphore
  /\ lastLLMEvalTime = 0
  /\ LimiterIdle
  /\ EvaluatorIdle
evaluationVars ==
  <<runnerVars, runVars, inputVars, lastLLMEvalTime, limiterVars, evaluatorVars>>

\* ============================================================== LoopAgent
\* What a sub-agent's Run yields: an error with a nil event, or an event
\* whose Actions.Escalate is set from the pass escalateFrom on (0: never).
NilErrEvent == [nil |-> TRUE, escalateFrom |-> 0]
PlainEvent == [nil |-> FALSE, escalateFrom |-> 0]
EscalateEvent == [nil |-> FALSE, escalateFrom |-> 1]
EscalateLaterEvent == [nil |-> FALSE, escalateFrom |-> 2]

\* The runs of a sub-agent, and the lists of sub-agents of a LoopAgent.
SubAgentRuns ==
  { <<>>,
    <<PlainEvent>>,
    <<EscalateEvent, PlainEvent>>,
    <<PlainEvent, EscalateLaterEvent, PlainEvent>>,
    <<NilErrEvent, PlainEvent>>,
    <<EscalateEvent, NilErrEvent, PlainEvent>> }
SubAgentLists == SeqsUpTo(SubAgentRuns, MaxSubAgents)

\* The passes of a LoopAgent that never stops on its own are followed this far.
PassCap == MaxIterations + 1

\* The LoopAgent is created and nothing else runs.
InitLoopAgent ==
  /\ EvaluationIdle
  /\ ReplayIdle
  /\ LlmIdle
  /\ SessionIdle
  /\ StoreIdle
  /\ maxIterations \in 0..MaxIterations
  /\ subAgents \in SubAgentLists
  /\ count = 0
  /\ shouldExit = FALSE
  /\ subIdx = 0
  /\ evIdx = 0
  /\ loopPc = "idle"
  /\ iteration = 0
  /\ yielded = <<>>
  /\ started = <<>>
  /\ stopped = FALSE

notLoopVars == <<evaluationVars, llmVars, sessionVars, replayVars, storeVars>>

\* Run, lines 73-75, and the consumer starts to range over what it returned.
LoopAgentRun ==
  /\ loopPc = "idle"
  /\ count' = maxIterations
  /\ loopPc' = "for"
  /\ UNCHANGED <<notLoopVars, maxIterations, subAgents, shouldExit, subIdx, evIdx, iteration,
                 yielded, started, stopped>>

\* Lines 76-77: a pass begins.
BeginPass ==
  /\ loopPc = "for"
  /\ iteration < PassCap
  /\ shouldExit' = FALSE
  /\ subIdx' = 1
  /\ iteration' = iteration + 1
  /\ loopPc' = "subAgents"
  /\ UNCHANGED <<notLoopVars, maxIterations, subAgents, count, evIdx, yielded, started,
                 stopped>>

\* Lines 78-79: the next sub-agent of the pass is run.
RunSubAgent ==
  /\ loopPc = "subAgents"
  /\ subIdx <= Len(subAgents)
  /\ evIdx' = 1
  /\ started' = Append(started, <<iteration, subIdx>>)
  /\ loopPc' = "events"
  /\ UNCHANGED <<notLoopVars, maxIterations, subAgents, count, shouldExit, subIdx, iteration,
                 yielded, stopped>>

\* The event the sub-agent yields next, as the consumer sees it.
NextEvent ==
  LET event == subAgents[subIdx][evIdx]
  IN [pass |-> iteration, agent |-> subIdx, index |-> evIdx, nil |-> event.nil,
      Escalate |-> event.escalateFrom > 0 /\ iteration >= event.escalateFrom]

\* Lines 79-88: the sub-agent's next event is yielded; the loop returns when
\* the consumer stops, dereferences the event (a nil event panics), and
\* notes an escalation.
Yield ==
  /\ loopPc = "events"
  /\ evIdx <= Len(subAgents[subIdx])
  /\ yielded' = Append(yielded, NextEvent)
  /\ \E more \in BOOLEAN :
       IF ~more
       THEN /\ stopped' = TRUE
            /\ loopPc' = "returned"
            /\ UNCHANGED <<shouldExit, evIdx>>
       ELSE IF NextEvent.nil
       THEN /\ loopPc' = "panicked"
            /\ UNCHANGED <<shouldExit, evIdx, stopped>>
       ELSE /\ shouldExit' = (shouldExit \/ NextEvent.Escalate)
            /\ evIdx' = evIdx + 1
            /\ UNCHANGED <<loopPc, stopped>>
  /\ UNCHANGED <<notLoopVars, maxIterations, subAgents, count, subIdx, iteration, started>>

\* EndSubAgent going on with the next sub-agent whatever shouldExit says.
EndSubAgentIgnoresEscalation ==
  /\ loopPc = "events"
  /\ evIdx > Len(subAgents[subIdx])
  /\ subIdx' = subIdx + 1
  /\ loopPc' = "subAgents"
  /\ UNCHANGED <<notLoopVars, maxIterations, subAgents, count, shouldExit, evIdx, iteration,
                 yielded, started, stopped>>

\* Lines 89-92: the sub-agent's run is over; the loop returns if an event
\* of it escalated.
EndSubAgent ==
  /\ loopPc = "events"
  /\ evIdx > Len(subAgents[subIdx])
  /\ IF shouldExit
     THEN loopPc' = "returned" /\ UNCHANGED subIdx
     ELSE subIdx' = subIdx + 1 /\ loopPc' = "subAgents"
  /\ UNCHANGED <<notLoopVars, maxIterations, subAgents, count, shouldExit, evIdx, iteration,
                 yielded, started, stopped>>

\* EndPass testing count for zero before it decrements it.
EndPassTestsBeforeDecrement ==
  /\ loopPc = "subAgents"
  /\ subIdx > Len(subAgents)
  /\ IF count = 0
     THEN loopPc' = "returned" /\ UNCHANGED count
     ELSE count' = count - 1 /\ loopPc' = "for"
  /\ UNCHANGED <<notLoopVars, maxIterations, subAgents, shouldExit, subIdx, evIdx, iteration,
                 yielded, started, stopped>>

\* Lines 94-99: the pass is over; a positive count is decremented and the
\* loop returns when it reaches zero.
EndPass ==
  /\ loopPc = "subAgents"
  /\ subIdx > Len(subAgents)
  /\ IF count > 0
     THEN /\ count' = count - 1
          /\ loopPc' = IF count - 1 = 0 THEN "returned" ELSE "for"
     ELSE /\ loopPc' = "for"
          /\ UNCHANGED count
  /\ UNCHANGED <<notLoopVars, maxIterations, subAgents, shouldExit, subIdx, evIdx, iteration,
                 yielded, started, stopped>>

NextLoopAgent ==
  \/ LoopAgentRun
  \/ BeginPass
  \/ RunSubAgent
  \/ Yield
  \/ EndSubAgent
  \/ EndPass

\* The goroutine that ranges over Run keeps running: the loop and its
\* consumer take their next step.
SpecLoopAgent == InitLoopAgent /\ [][NextLoopAgent]_vars /\ WF_vars(NextLoopAgent)

\* =============================================================== LLM agent
\* Event.Actions.StateDelta, a map[string]any: nil or a map.
NilDelta == [nil |-> TRUE, m |-> EmptyMap]
StateDeltas ==
  {NilDelta, [nil |-> FALSE, m |-> EmptyMap], [nil |-> FALSE, m |-> ("key" :> <<"o">>)]}

\* genai.Part: its text and whether it is a thought.
TextParts == [Text : {<<>>, <<"a">>, <<" ">>}, Thought : BOOLEAN]

\* session.Event as maybeSaveOutputToState reads it: nil, or an event with
\* its author, its embedded *model.LLMResponse (nil, or with Partial and a
\* Content that is nil or has parts) and its StateDelta.
NilLlmEvent ==
  [nil |-> TRUE, Author |-> "", response |-> FALSE, Partial |-> FALSE, content |-> FALSE,
   Parts |-> <<>>, StateDelta |-> NilDelta]
LlmEvents ==
  {NilLlmEvent}
    \cup [nil : {FALSE}, Author : {"agent", "Agent", "other"}, response : {FALSE},
          Partial : {FALSE}, content : {FALSE}, Parts : {<<>>}, StateDelta : StateDeltas]
    \cup [nil : {FALSE}, Author : {"agent", "Agent", "other"}, response : {TRUE},
          Partial : BOOLEAN, content : {FALSE}, Parts : {<<>>}, StateDelta : StateDeltas]
    \cup [nil : {FALSE}, Author : {"agent", "Agent", "other"}, response : {TRUE},
          Partial : BOOLEAN, content : {TRUE}, Parts : SeqsUpTo(TextParts, MaxParts),
          StateDelta : StateDeltas]

\* llmAgent: its name, its OutputKey and whether it has an OutputSchema.
LlmAgents == [Name : {"agent"}, OutputKey : {"", "key"}, OutputSchema : BOOLEAN]

\* maybeSaveOutputToState, lines 210-215: the loop over the parts.
RECURSIVE PartsText(_, _, _)
PartsText(parts, i, sb) ==
  IF i > Len(parts) THEN sb
  ELSE PartsText(parts, i + 1,
                 IF parts[i].Text # <<>> /\ ~parts[i].Thought THEN sb \o parts[i].Text ELSE sb)

\* strings.TrimSpace(s) == "".
IsBlank(text) == \A i \in 1..Len(text) : text[i] = " "

Saved(delta) == [panicked |-> FALSE, StateDelta |-> delta]

\* maybeSaveOutputToState saving the output of every author.
maybeSaveOutputToStateAnyAuthor(a, event) ==
  IF event.nil THEN Saved(event.StateDelta)
  ELSE IF a.OutputKey = "" THEN Saved(event.StateDelta)
  ELSE IF ~event.response THEN [panicked |-> TRUE, StateDelta |-> event.StateDelta]
  ELSE IF ~event.Partial /\ event.content /\ Len(event.Parts) > 0
  THEN LET output == PartsText(event.Parts, 1, <<>>)
       IN IF a.OutputSchema /\ IsBlank(output) THEN Saved(event.StateDelta)
          ELSE Saved([nil |-> FALSE, m |-> Put(event.StateDelta.m, a.OutputKey, output)])
  ELSE Saved(event.StateDelta)

\* maybeSaveOutputToState: the event's StateDelta afterwards. Reading Partial
\* of an event whose LLMResponse is nil panics.
maybeSaveOutputToState(a, event) ==
  IF event.nil THEN Saved(event.StateDelta)
  ELSE IF event.Author # a.Name THEN Saved(event.StateDelta)
  ELSE IF a.OutputKey = "" THEN Saved(event.StateDelta)
  ELSE IF ~event.response THEN [panicked |-> TRUE, StateDelta |-> event.StateDelta]
  ELSE IF ~event.Partial /\ event.content /\ Len(event.Parts) > 0
  THEN LET output == PartsText(event.Parts, 1, <<>>)
       IN IF a.OutputSchema /\ IsBlank(output) THEN Saved(event.StateDelta)
          ELSE Saved([nil |-> FALSE, m |-> Put(event.StateDelta.m, a.OutputKey, output)])
  ELSE Saved(event.StateDelta)

\* ------------------------------------------------------ instruction template
\* A template is a string, kept as a sequence of symbols: the braces, a
\* letter, the question mark, a blank, the colon, the dot, and the words
\* "app" and "artifact" (letters, kept whole).
TemplateAtoms == {"{", "}", "a", "?", " ", ":", "app:", "artifact."}
Symbols(atom) ==
  IF atom = "app:" THEN <<"app", ":">>
  ELSE IF atom = "artifact." THEN <<"artifact", ".">>
  ELSE <<atom>>
RECURSIVE Spell(_)
Spell(atoms) == IF Len(atoms) = 0 THEN <<>> ELSE Symbols(Head(atoms)) \o Spell(Tail(atoms))
Templates == { Spell(atoms) : atoms \in SeqsUpTo(TemplateAtoms, MaxTemplateLen) }

IsLetter(r) == r \in {"a", "app", "artifact"}
Braces == {"{", "}"}

\* The first index from i on whose symbol is not in S (Len + 1 if none).
RECURSIVE RunEnd(_, _, _)
RunEnd(text, i, S) ==
  IF i > Len(text) \/ text[i] \notin S THEN i ELSE RunEnd(text, i + 1, S)

\* placeholderRegex `{+[^{}]*}+` tried at index s: the index after the
\* match, or 0 when there is none.
MatchAt(text, s) ==
  IF text[s] # "{" THEN 0
  ELSE LET inner == RunEnd(text, s, {"{"})
           close == RunEnd(text, inner, {"a", "?", " ", ":", ".", "app", "artifact"})
       IN IF close <= Len(text) /\ text[close] = "}" THEN RunEnd(text, close, {"}"})
          ELSE 0

\* placeholderRegex.FindAllStringIndex(template, -1): the matches from
\* index i on, leftmost first, as <<start, end>> with end exclusive.
RECURSIVE FindAllStringIndex(_, _)
FindAllStringIndex(text, i) ==
  IF i > Len(text) THEN <<>>
  ELSE IF MatchAt(text, i) > 0
  THEN <<<<i, MatchAt(text, i)>>>> \o FindAllStringIndex(text, MatchAt(text, i))
  ELSE FindAllStringIndex(text, i + 1)

\* strings.Trim(s, cutset) and strings.TrimSpace(s).
RECURSIVE TrimRight(_, _)
TrimRight(text, S) ==
  IF Len(text) > 0 /\ text[Len(text)] \in S THEN TrimRight(SubSeq(text, 1, Len(text) - 1), S)
  ELSE text
Trim(text, S) == LET r == TrimRight(text, S) IN SubSeq(r, RunEnd(r, 1, S), Len(r))
TrimBlanks(text) == Trim(text, {" "})

\* isIdentifier: letters only (no digit and no underscore is among the
\* symbols).
isIdentifier(text) == Len(text) > 0 /\ \A i \in 1..Len(text) : IsLetter(text[i])

\* strings.Split(s, ":").
RECURSIVE Split(_, _, _)
Split(text, i, current) ==
  IF i > Len(text) THEN <<current>>
  ELSE IF text[i] = ":" THEN <<current>> \o Split(text, i + 1, <<>>)
  ELSE Split(text, i + 1, Append(current, text[i]))

\* isValidStateName; of the three valid prefixes the templates spell "app:".
isValidStateName(varName) ==
  LET parts == Split(varName, 1, <<>>)
  IN IF Len(parts) = 1 THEN isIdentifier(varName)
     ELSE IF Len(parts) = 2 THEN parts[1] = <<"app">> /\ isIdentifier(parts[2])
     ELSE FALSE

\* The session state: a value, a nil value, a prefixed name; every other
\* name is missing.
NilValue == [nil |-> TRUE, text |-> <<>>]
Value(text) == [nil |-> FALSE, text |-> text]
SessionState ==
  (<<"a">> :> Value(<<"v">>)) @@ (<<"app">> :> NilValue)
    @@ (<<"app", ":", "a">> :> Value(<<"w">>))

\* ctx.Artifacts(): nil, or a service that holds the file "a".
ArtifactFiles == (<<"a">> :> <<"t">>)
ArtifactServices == {Nil, "artifacts"}

Replaced(text) == [err |-> FALSE, text |-> text]
ReplaceError == [err |-> TRUE, text |-> <<>>]

\* replaceMatch treating a missing name as an optional one.
replaceMatchMissingIsEmpty(artifacts, match) ==
  LET trimmed == TrimBlanks(Trim(match, Braces))
      optional == Len(trimmed) > 0 /\ trimmed[Len(trimmed)] = "?"
      varName == IF optional THEN SubSeq(trimmed, 1, Len(trimmed) - 1) ELSE trimmed
  IN IF Len(varName) >= 2 /\ SubSeq(varName, 1, 2) = <<"artifact", ".">>
     THEN LET fileName == SubSeq(varName, 3, Len(varName))
          IN IF artifacts = Nil THEN ReplaceError
             ELSE IF fileName \notin DOMAIN ArtifactFiles
             THEN Replaced(<<>>)
             ELSE Replaced(ArtifactFiles[fileName])
     ELSE IF ~isValidStateName(varName) THEN Replaced(match)
     ELSE IF varName \notin DOMAIN SessionState
     THEN Replaced(<<>>)
     ELSE IF SessionState[varName].nil THEN Replaced(<<>>)
     ELSE Replaced(SessionState[varName].text)

\* replaceMatch.
replaceMatch(artifacts, match) ==
  LET trimmed == TrimBlanks(Trim(match, Braces))
      optional == Len(trimmed) > 0 /\ trimmed[Len(trimmed)] = "?"
      varName == IF optional THEN SubSeq(trimmed, 1, Len(trimmed) - 1) ELSE trimmed
  IN IF Len(varName) >= 2 /\ SubSeq(varName, 1, 2) = <<"artifact", ".">>
     THEN LET fileName == SubSeq(varName, 3, Len(varName))
          IN IF artifacts = Nil THEN ReplaceError
             ELSE IF fileName \notin DOMAIN ArtifactFiles
             THEN IF optional THEN Replaced(<<>>) ELSE ReplaceError
             ELSE Replaced(ArtifactFiles[fileName])
     ELSE IF ~isValidStateName(varName) THEN Replaced(match)
     ELSE IF varName \notin DOMAIN SessionState
     THEN IF optional THEN Replaced(<<>>) ELSE ReplaceError
     ELSE IF SessionState[varName].nil THEN Replaced(<<>>)
     ELSE Replaced(SessionState[varName].text)

\* injectSessionState, lines 443-459: the loop over the matches.
RECURSIVE MatchLoop(_, _, _, _, _, _)
MatchLoop(artifacts, template, matches, i, lastIndex, sofar) ==
  IF i > Len(matches)
  THEN Replaced(sofar \o SubSeq(template, lastIndex, Len(template)))
  ELSE LET startIndex == matches[i][1]
           endIndex == matches[i][2]
           replacement == replaceMatch(artifacts, SubSeq(template, startIndex, endIndex - 1))
       IN IF replacement.err THEN ReplaceError
          ELSE MatchLoop(artifacts, template, matches, i + 1, endIndex,
                         sofar \o SubSeq(template, lastIndex, startIndex - 1)
                                \o replacement.text)

injectSessionState(artifacts, template) ==
  MatchLoop(artifacts, template, FindAllStringIndex(template, 1), 1, 1, <<>>)

\* The instructions an agent is configured with: none, a plain text, a
\* placeholder of the session state, and a placeholder that names no state.
InstructionTexts ==
  {<<>>, <<"a">>, <<"{", "a", "}">>, <<"{", "artifact", "}">>}
InstructedAgents ==
  [nil : {FALSE}, GlobalInstruction : InstructionTexts,
   Instruction : InstructionTexts]

\* asLLMAgent of an agent that is not an LLM agent.
NilAgent == [nil |-> TRUE, GlobalInstruction |-> <<>>, Instruction |-> <<>>]

\* ctx.Agent() with the root the parent map gives for it: the agent itself,
\* or another agent.
ProcessorInputs ==
  { args \in [artifacts : ArtifactServices,
              agent : InstructedAgents \cup {NilAgent},
              isRoot : BOOLEAN,
              root : InstructedAgents \cup {NilAgent}] :
      args.isRoot => args.root = args.agent }
Processed(err, appended) == [err |-> err, appended |-> appended]

\* instructionsRequestProcessor: the texts handed to AppendInstructions, in
\* order, and whether an error is returned.
instructionsRequestProcessor(artifacts, agent, root) ==
  IF agent.nil THEN Processed(FALSE, <<>>)
  ELSE LET rootAgent == IF root.nil THEN agent ELSE root
           global == injectSessionState(artifacts, agent.GlobalInstruction)
           own == injectSessionState(artifacts, agent.Instruction)
           first == IF rootAgent.GlobalInstruction # <<>>
                    THEN <<global.text>> ELSE <<>>
       IN IF rootAgent.GlobalInstruction # <<>> /\ global.err
          THEN Processed(TRUE, <<>>)
          ELSE IF agent.Instruction = <<>> THEN Processed(FALSE, first)
          ELSE IF own.err THEN Processed(TRUE, first)
          ELSE Processed(FALSE, first \o <<own.text>>)

\* One function of the LLM agent is applied to its arguments.
LlmCalls ==
  {"maybeSaveOutputToState", "injectSessionState", "instructionsRequestProcessor"}
LlmInputs(f) ==
  IF f = "maybeSaveOutputToState" THEN [agent : LlmAgents, event : LlmEvents]
  ELSE IF f = "injectSessionState"
  THEN [artifacts : ArtifactServices, template : Templates]
  ELSE ProcessorInputs

InitLlmAgent ==
  /\ EvaluationIdle
  /\ ReplayIdle
  /\ LoopIdle
  /\ SessionIdle
  /\ StoreIdle
  /\ fn \in LlmCalls
  /\ fnArgs \in LlmInputs(fn)
  /\ fnRet = <<>>

notLlmVars == <<evaluationVars, loopVars, sessionVars, replayVars, storeVars>>

\* llmAgent.run, line 191: the event passes through maybeSaveOutputToState.
MaybeSaveOutputToState ==
  /\ fn = "maybeSaveOutputToState"
  /\ fnRet = <<>>
  /\ fnRet' = maybeSaveOutputToState(fnArgs.agent, fnArgs.event)
  /\ UNCHANGED <<notLlmVars, fn, fnArgs>>

\* The instruction of the agent is filled in from the session.
InjectSessionState ==
  /\ fn = "injectSessionState"
  /\ fnRet = <<>>
  /\ fnRet' = injectSessionState(fnArgs.artifacts, fnArgs.template)
  /\ UNCHANGED <<notLlmVars, fn, fnArgs>>

\* The request processor adds the instructions of the agent to the request.
InstructionsRequestProcessor ==
  /\ fn = "instructionsRequestProcessor"
  /\ fnRet = <<>>
  /\ fnRet' = instructionsRequestProcessor(fnArgs.artifacts, fnArgs.agent,
                                           fnArgs.root)
  /\ UNCHANGED <<notLlmVars, fn, fnArgs>>

NextLlmAgent ==
  \/ MaybeSaveOutputToState
  \/ InjectSessionState
  \/ InstructionsRequestProcessor

SpecLlmAgent == InitLlmAgent /\ [][NextLlmAgent]_vars

\* ============================================== the replay, step by step
\* runConversation on one case: the Runner's agent runner and session
\* service, what the service answers to Create, the conversation, and what
\* the agent yields when it is run on each turn.
ReplayInputs ==
  { [agentRunner |-> r.agentRunner, sessionService |-> service, sessionErr |-> r.sessionErr,
     conversation |-> r.conversation, runs |-> r.runs] :
      r \in { x \in Replays : x.sessionID = 1 }, service \in {Nil, "service"} }

InitReplay ==
  /\ EvaluationIdle
  /\ LoopIdle
  /\ LlmIdle
  /\ SessionIdle
  /\ StoreIdle
  /\ replaying \in { r \in ReplayInputs : r.sessionService = Nil => r.sessionErr = "" }
  /\ replayPc = "runConversation"
  /\ turnIdx = 0
  /\ runPos = 0
  /\ replayInvocations = <<>>
  /\ replayLog = <<>>

notReplayVars == <<evaluationVars, loopVars, llmVars, sessionVars, storeVars>>

\* runConversation, lines 233-235: without an agent runner nothing is replayed.
RunConversationBegin ==
  /\ replayPc = "runConversation"
  /\ IF replaying.agentRunner = Nil
     THEN /\ replayPc' = "returned"
          /\ replayLog' = Append(replayLog, <<"return", FALSE>>)
     ELSE /\ replayPc' = "createSession"
          /\ UNCHANGED replayLog
  /\ UNCHANGED <<notReplayVars, replaying, turnIdx, runPos, replayInvocations>>

\* runConversation, lines 238-240, and createSession: without a session
\* service no session is created; an error of Create other than "already
\* exists" ends the replay.
CreateSession ==
  /\ replayPc = "createSession"
  /\ IF replaying.sessionService = Nil
     THEN /\ replayPc' = "turns"
          /\ turnIdx' = 1
          /\ UNCHANGED replayLog
     ELSE IF createSession(replaying.sessionErr)
     THEN /\ replayPc' = "turns"
          /\ turnIdx' = 1
          /\ replayLog' = Append(replayLog, <<"Create", TRUE>>)
     ELSE /\ replayPc' = "returned"
          /\ replayLog' = replayLog \o <<<<"Create", FALSE>>, <<"return", TRUE>>>>
          /\ UNCHANGED turnIdx
  /\ UNCHANGED <<notReplayVars, replaying, runPos, replayInvocations>>

\* processTurn, lines 276-288: a turn of another role is passed over; for a
\* user turn the agent is run on the message.
SubmitTurn ==
  /\ replayPc = "turns"
  /\ turnIdx <= Len(replaying.conversation)
  /\ IF replaying.conversation[turnIdx].Role # "user"
     THEN /\ turnIdx' = turnIdx + 1
          /\ UNCHANGED <<replayPc, runPos, replayLog>>
     ELSE /\ replayPc' = "events"
          /\ runPos' = 1
          /\ replayLog' = Append(replayLog, <<"Run", turnIdx>>)
          /\ UNCHANGED turnIdx
  /\ UNCHANGED <<notReplayVars, replaying, replayInvocations>>

\* ConsumeEvent going on after an error of the run.
ConsumeEventPastError ==
  /\ replayPc = "events"
  /\ runPos <= Len(replaying.runs[turnIdx])
  /\ replayLog' = Append(replayLog,
                         <<IF replaying.runs[turnIdx][runPos].err THEN "error" ELSE "event",
                           turnIdx, runPos>>)
  /\ runPos' = runPos + 1
  /\ UNCHANGED <<replayPc, turnIdx, replayInvocations>>
  /\ UNCHANGED <<notReplayVars, replaying>>

\* runAgentAndCollectEvents, lines 306-337: the next event of the run is
\* consumed; an error ends the run, the turn and the replay.
ConsumeEvent ==
  /\ replayPc = "events"
  /\ runPos <= Len(replaying.runs[turnIdx])
  /\ IF replaying.runs[turnIdx][runPos].err
     THEN /\ replayPc' = "returned"
          /\ replayLog' = replayLog \o <<<<"error", turnIdx, runPos>>, <<"return", TRUE>>>>
          /\ replayInvocations' = <<>>
          /\ UNCHANGED runPos
     ELSE /\ replayLog' = Append(replayLog, <<"event", turnIdx, runPos>>)
          /\ runPos' = runPos + 1
          /\ UNCHANGED <<replayPc, replayInvocations>>
  /\ UNCHANGED <<notReplayVars, replaying, turnIdx>>

\* runAgentAndCollectEvents, line 339, processTurn, lines 293-299, and
\* runConversation, lines 248-250: the run is over and the turn's invocation
\* is collected.
CollectInvocation ==
  /\ replayPc = "events"
  /\ runPos > Len(replaying.runs[turnIdx])
  /\ replayInvocations' = Append(replayInvocations, turnIdx)
  /\ replayLog' = Append(replayLog, <<"invocation", turnIdx>>)
  /\ turnIdx' = turnIdx + 1
  /\ replayPc' = "turns"
  /\ UNCHANGED <<notReplayVars, replaying, runPos>>

\* runConversation, line 254.
ReturnInvocations ==
  /\ replayPc = "turns"
  /\ turnIdx > Len(replaying.conversation)
  /\ replayPc' = "returned"
  /\ replayLog' = Append(replayLog, <<"return", FALSE>>)
  /\ UNCHANGED <<notReplayVars, replaying, turnIdx, runPos, replayInvocations>>

NextReplay ==
  \/ RunConversationBegin
  \/ CreateSession
  \/ SubmitTurn
  \/ ConsumeEvent
  \/ CollectInvocation
  \/ ReturnInvocations

SpecReplay == InitReplay /\ [][NextReplay]_vars

\* ======================================================= in-memory sessions
\* The goroutines that call the service and the accessors of its session.
Threads == {1, 2}
\* The keys of the session's state.
StateKeys == {"a", "b"}
\* The encoded key of the session in the service's map.
SessionKey == <<"app", "user", "session">>

\* sync.RWMutex: Lock waits for the writer and the readers to leave, RLock
\* for the writer.
CanLock(mu) == mu.writer = 0 /\ mu.readers = {}
CanRLock(mu) == mu.writer = 0
Lock(mu, t) == [mu EXCEPT !.writer = t]
RLock(mu, t) == [mu EXCEPT !.readers = @ \cup {t}]
Unlock(mu) == [mu EXCEPT !.writer = 0]
RUnlock(mu, t) == [mu EXCEPT !.readers = @ \ {t}]

\* An access of goroutine t to a field that mu guards: guarded when t holds
\* mu, for a write as the writer.
Access(t, field, write, mu) ==
  [thread |-> t, field |-> field, write |-> write,
   guarded |-> mu.writer = t \/ (~write /\ t \in mu.readers)]

\* A goroutine: the call it is in, its position in it, and the number of keys
\* state.All has yielded.
IdleThread == [op |-> "", pc |-> "idle", i |-> 0]
At(t, op, at) == threads[t].op = op /\ threads[t].pc = at
Goto(t, to) == threads' = [threads EXCEPT ![t].pc = to]
Leave(t) == threads' = [threads EXCEPT ![t] = IdleThread]
Appending == { t \in Threads : threads[t].op = "AppendEvent" }

InitSession ==
  /\ EvaluationIdle
  /\ ReplayIdle
  /\ StoreIdle
  /\ LoopIdle
  /\ LlmIdle
  /\ serviceMu = Unlocked
  /\ sessions = {}
  /\ sessionMu = Unlocked
  /\ sessionEvents = 0
  /\ sessionState = {}
  /\ updatedAt = 0
  /\ threads = [t \in Threads |-> IdleThread]
  /\ lastAccess = NoAccess

notSessionVars == <<evaluationVars, loopVars, llmVars, replayVars, storeVars>>

\* A goroutine calls the service or, once the session exists, the session.
\* The session is created once and events are appended up to MaxAppends.
Call(t) ==
  /\ threads[t] = IdleThread
  /\ \E op \in {"Create", "Get", "List", "Delete", "AppendEvent", "Events",
                "LastUpdateTime", "state.Get", "state.Set", "state.All"} :
       /\ op = "Create" => updatedAt = 0 /\ \A u \in Threads : threads[u].op # "Create"
       /\ op \notin {"Create", "Get", "List", "Delete"} => updatedAt > 0
       /\ op = "AppendEvent" => sessionEvents + Cardinality(Appending) < MaxAppends
       /\ \E delta \in BOOLEAN :
            threads' = [threads EXCEPT ![t] =
                          [op |-> op, i |-> 0,
                           pc |-> IF op = "AppendEvent" /\ ~delta THEN "service"
                                  ELSE IF op = "Events" THEN "read"
                                  ELSE "lock"]]
  /\ UNCHANGED <<notSessionVars, serviceMu, sessions, sessionMu, sessionEvents, sessionState,
                 updatedAt, lastAccess>>

LockService(t, op) ==
  /\ At(t, op, "lock")
  /\ CanLock(serviceMu)
  /\ serviceMu' = Lock(serviceMu, t)
  /\ Goto(t, "locked")
  /\ UNCHANGED <<notSessionVars, sessions, sessionMu, sessionEvents, sessionState, updatedAt,
                 lastAccess>>

RLockService(t, op) ==
  /\ At(t, op, "lock")
  /\ CanRLock(serviceMu)
  /\ serviceMu' = RLock(serviceMu, t)
  /\ Goto(t, "locked")
  /\ UNCHANGED <<notSessionVars, sessions, sessionMu, sessionEvents, sessionState, updatedAt,
                 lastAccess>>

LockSession(t, op, from) ==
  /\ At(t, op, from)
  /\ CanLock(sessionMu)
  /\ sessionMu' = Lock(sessionMu, t)
  /\ Goto(t, "locked")
  /\ UNCHANGED <<notSessionVars, serviceMu, sessions, sessionEvents, sessionState, updatedAt,
                 lastAccess>>

RLockSession(t, op) ==
  /\ At(t, op, "lock")
  /\ CanRLock(sessionMu)
  /\ sessionMu' = RLock(sessionMu, t)
  /\ Goto(t, "locked")
  /\ UNCHANGED <<notSessionVars, serviceMu, sessions, sessionEvents, sessionState, updatedAt,
                 lastAccess>>

\* Create, lines 64-65.
CreateLock(t) == LockService(t, "Create")
\* Create, lines 67-71: the new session enters the map.
CreateSet(t) ==
  /\ At(t, "Create", "locked")
  /\ lastAccess' = Access(t, "sessions", TRUE, serviceMu)
  /\ sessions' = sessions \cup {SessionKey}
  /\ updatedAt' = 1
  /\ serviceMu' = Unlock(serviceMu)
  /\ Leave(t)
  /\ UNCHANGED <<notSessionVars, sessionMu, sessionEvents, sessionState>>

\* Get, lines 80-81.
GetRLock(t) == RLockService(t, "Get")
\* Get, lines 89-97.
GetGet(t) ==
  /\ At(t, "Get", "locked")
  /\ lastAccess' = Access(t, "sessions", FALSE, serviceMu)
  /\ serviceMu' = RUnlock(serviceMu, t)
  /\ Leave(t)
  /\ UNCHANGED <<notSessionVars, sessions, sessionMu, sessionEvents, sessionState, updatedAt>>

\* List, lines 105-106.
ListRLock(t) == RLockService(t, "List")
\* List, lines 112-126.
ListScan(t) ==
  /\ At(t, "List", "locked")
  /\ lastAccess' = Access(t, "sessions", FALSE, serviceMu)
  /\ serviceMu' = RUnlock(serviceMu, t)
  /\ Leave(t)
  /\ UNCHANGED <<notSessionVars, sessions, sessionMu, sessionEvents, sessionState, updatedAt>>

\* Delete, lines 135-136.
DeleteLock(t) == LockService(t, "Delete")
\* Delete, lines 144-146.
DeleteDelete(t) ==
  /\ At(t, "Delete", "locked")
  /\ lastAccess' = Access(t, "sessions", TRUE, serviceMu)
  /\ sessions' = sessions \ {SessionKey}
  /\ serviceMu' = Unlock(serviceMu)
  /\ Leave(t)
  /\ UNCHANGED <<notSessionVars, sessionMu, sessionEvents, sessionState, updatedAt>>

\* AppendEvent, lines 161-165 with state.Set, lines 300-301: the event has a
\* StateDelta.
AppendEventStateLock(t) == LockSession(t, "AppendEvent", "lock")
\* state.Set, lines 303-304, then AppendEvent goes on to line 171.
AppendEventStateSet(t) ==
  /\ At(t, "AppendEvent", "locked")
  /\ serviceMu.writer # t
  /\ lastAccess' = Access(t, "state", TRUE, sessionMu)
  /\ sessionState' = sessionState \cup {"a"}
  /\ sessionMu' = Unlock(sessionMu)
  /\ Goto(t, "service")
  /\ UNCHANGED <<notSessionVars, serviceMu, sessions, sessionEvents, updatedAt>>

\* AppendEvent, lines 171-172.
AppendEventLock(t) ==
  /\ At(t, "AppendEvent", "service")
  /\ CanLock(serviceMu)
  /\ serviceMu' = Lock(serviceMu, t)
  /\ Goto(t, "append")
  /\ UNCHANGED <<notSessionVars, sessions, sessionMu, sessionEvents, sessionState, updatedAt,
                 lastAccess>>

\* appendEvent, lines 236-237.
appendEventLock(t) == LockSession(t, "AppendEvent", "append")
\* appendEvent, lines 239-240.
appendEvent(t) ==
  /\ At(t, "AppendEvent", "locked")
  /\ serviceMu.writer = t
  /\ lastAccess' = Access(t, "events", TRUE, sessionMu)
  /\ sessionEvents' = sessionEvents + 1
  /\ updatedAt' = updatedAt + 1
  /\ sessionMu' = Unlock(sessionMu)
  /\ Goto(t, "set")
  /\ UNCHANGED <<notSessionVars, serviceMu, sessions, sessionState>>

\* AppendEvent, lines 176-178.
AppendEventSet(t) ==
  /\ At(t, "AppendEvent", "set")
  /\ lastAccess' = Access(t, "sessions", TRUE, serviceMu)
  /\ sessions' = sessions \cup {SessionKey}
  /\ serviceMu' = Unlock(serviceMu)
  /\ Leave(t)
  /\ UNCHANGED <<notSessionVars, sessionMu, sessionEvents, sessionState, updatedAt>>

\* session.Events, lines 224-226: s.events is read, and no lock is taken.
Events(t) ==
  /\ At(t, "Events", "read")
  /\ lastAccess' = Access(t, "events", FALSE, sessionMu)
  /\ Leave(t)
  /\ UNCHANGED <<notSessionVars, serviceMu, sessions, sessionMu, sessionEvents, sessionState,
                 updatedAt>>

\* LastUpdateTime, lines 229-230.
LastUpdateTimeRLock(t) == RLockSession(t, "LastUpdateTime")
\* LastUpdateTime, line 232.
LastUpdateTime(t) ==
  /\ At(t, "LastUpdateTime", "locked")
  /\ lastAccess' = Access(t, "updatedAt", FALSE, sessionMu)
  /\ sessionMu' = RUnlock(sessionMu, t)
  /\ Leave(t)
  /\ UNCHANGED <<notSessionVars, serviceMu, sessions, sessionEvents, sessionState, updatedAt>>

\* state.Get, lines 272-273.
StateGetRLock(t) == RLockSession(t, "state.Get")
\* state.Get, lines 275-280.
StateGet(t) ==
  /\ At(t, "state.Get", "locked")
  /\ lastAccess' = Access(t, "state", FALSE, sessionMu)
  /\ sessionMu' = RUnlock(sessionMu, t)
  /\ Leave(t)
  /\ UNCHANGED <<notSessionVars, serviceMu, sessions, sessionEvents, sessionState, updatedAt>>

\* state.Set, lines 300-301.
StateSetLock(t) == LockSession(t, "state.Set", "lock")
\* state.Set, lines 303-304.
StateSet(t) ==
  /\ At(t, "state.Set", "locked")
  /\ lastAccess' = Access(t, "state", TRUE, sessionMu)
  /\ \E key \in StateKeys : sessionState' = sessionState \cup {key}
  /\ sessionMu' = Unlock(sessionMu)
  /\ Leave(t)
  /\ UNCHANGED <<notSessionVars, serviceMu, sessions, sessionEvents, updatedAt>>

\* state.All, lines 285 and 292: the read lock, taken before the loop and
\* again after every yield.
StateAllRLock(t) == RLockSession(t, "state.All")
\* state.All, lines 287-288 and 295: the next key is read from the map and the
\* lock released, before the yield or at the end of the loop.
StateAllRange(t) ==
  /\ At(t, "state.All", "locked")
  /\ lastAccess' = Access(t, "state", FALSE, sessionMu)
  /\ sessionMu' = RUnlock(sessionMu, t)
  /\ IF threads[t].i < Cardinality(sessionState)
     THEN threads' = [threads EXCEPT ![t].pc = "yield", ![t].i = @ + 1]
     ELSE Leave(t)
  /\ UNCHANGED <<notSessionVars, serviceMu, sessions, sessionEvents, sessionState, updatedAt>>

\* state.All, lines 289-291: the consumer stops the iteration or goes on.
StateAllYield(t) ==
  /\ At(t, "state.All", "yield")
  /\ \E more \in BOOLEAN : IF more THEN Goto(t, "lock") ELSE Leave(t)
  /\ UNCHANGED <<notSessionVars, serviceMu, sessions, sessionMu, sessionEvents, sessionState,
                 updatedAt, lastAccess>>

NextSession ==
  \E t \in Threads :
    \/ Call(t)
    \/ CreateLock(t)
    \/ CreateSet(t)
    \/ GetRLock(t)
    \/ GetGet(t)
    \/ ListRLock(t)
    \/ ListScan(t)
    \/ DeleteLock(t)
    \/ DeleteDelete(t)
    \/ AppendEventStateLock(t)
    \/ AppendEventStateSet(t)
    \/ AppendEventLock(t)
    \/ appendEventLock(t)
    \/ appendEvent(t)
    \/ AppendEventSet(t)
    \/ Events(t)
    \/ LastUpdateTimeRLock(t)
    \/ LastUpdateTime(t)
    \/ StateGetRLock(t)
    \/ StateGet(t)
    \/ StateSetLock(t)
    \/ StateSet(t)
    \/ StateAllRLock(t)
    \/ StateAllRange(t)
    \/ StateAllYield(t)

SpecSession == InitSession /\ [][NextSession]_vars

\* ====================================================== the stored sessions
\* The service as its callers see it: every call holds inMemoryService.mu
\* while it reads or writes the map, so a call is one step.
AppNames == {"", "app"}
UserIDs == {"", "u"}
SessionIDs == {<<>>, <<"s">>}
\* id.Encode is injective: a key is the triple it encodes.
Encode(appName, userID, sessionID) == <<appName, userID, sessionID>>
\* uuid.NewString(): an identifier no earlier session has.
NewString == <<"uuid", Len(objects) + 1>>
\* CreateRequest.State and EventActions.StateDelta: nil, or a map with these keys.
RequestStates == {Nil, <<"a">>}
EventStateDeltas == {Nil, <<"b">>}
KeySet(m) == IF m = Nil THEN {} ELSE {m[i] : i \in DOMAIN m}
CreateRequests ==
  [AppName : AppNames, UserID : UserIDs, SessionID : SessionIDs,
   State : RequestStates]
\* GetRequest and DeleteRequest; ListRequest names no session.
SessionRequests == [AppName : AppNames, UserID : UserIDs, SessionID : SessionIDs]
ListRequests == [AppName : AppNames, UserID : UserIDs, SessionID : {<<>>}]

\* What a call returned; for Create also the session it found stored under
\* the key (0: none).
StoredUnder(key) == IF key \in DOMAIN stored THEN stored[key] ELSE 0
Response(op, key, err, sess, list) ==
  [op |-> op, key |-> key, err |-> err, Session |-> sess, Sessions |-> list,
   found |-> IF op = "Create" /\ err = Nil THEN StoredUnder(key) ELSE 0]
RequestKey(req) == Encode(req.AppName, req.UserID, req.SessionID)
\* The events appended so far, over all sessions.
RECURSIVE TotalEvents(_)
TotalEvents(i) == IF i = 0 THEN 0 ELSE objects[i].events + TotalEvents(i - 1)

InitStore ==
  /\ EvaluationIdle
  /\ ReplayIdle
  /\ LoopIdle
  /\ LlmIdle
  /\ SessionIdle
  /\ stored = <<>>
  /\ objects = <<>>
  /\ deletedKeys = {}
  /\ response = Response("", <<>>, Nil, 0, {})

notStoreVars == <<evaluationVars, loopVars, llmVars, sessionVars, replayVars>>

\* Create that refuses a key that is stored.
CreateUnlessStored(req) ==
  /\ Len(objects) < MaxCreates
  /\ IF req.AppName = "" \/ req.UserID = ""
     THEN /\ response' = Response("Create", RequestKey(req), "required", 0, {})
          /\ UNCHANGED <<stored, objects, deletedKeys>>
     ELSE LET sessionID == IF req.SessionID = <<>> THEN NewString ELSE req.SessionID
              key == Encode(req.AppName, req.UserID, sessionID)
              val == [id |-> key, state |-> KeySet(req.State), events |-> 0]
          IN IF key \in DOMAIN stored
             THEN /\ response' = Response("Create", key, "already exists", 0, {})
                  /\ UNCHANGED <<stored, objects, deletedKeys>>
             ELSE /\ objects' = Append(objects, val)
                  /\ stored' = (key :> Len(objects) + 1) @@ stored
                  /\ deletedKeys' = deletedKeys \ {key}
                  /\ response' = Response("Create", key, Nil, Len(objects) + 1, {})
  /\ UNCHANGED notStoreVars

\* Create.
Create(req) ==
  /\ Len(objects) < MaxCreates
  /\ IF req.AppName = "" \/ req.UserID = ""
     THEN /\ response' = Response("Create", RequestKey(req), "required", 0, {})
          /\ UNCHANGED <<stored, objects, deletedKeys>>
     ELSE LET sessionID == IF req.SessionID = <<>> THEN NewString ELSE req.SessionID
              key == Encode(req.AppName, req.UserID, sessionID)
              val == [id |-> key, state |-> KeySet(req.State), events |-> 0]
          IN /\ objects' = Append(objects, val)
             /\ stored' = (key :> Len(objects) + 1) @@ stored
             /\ deletedKeys' = deletedKeys \ {key}
             /\ response' = Response("Create", key, Nil, Len(objects) + 1, {})
  /\ UNCHANGED notStoreVars

\* Get.
Get(req) ==
  /\ IF req.AppName = "" \/ req.UserID = "" \/ req.SessionID = <<>>
     THEN response' = Response("Get", RequestKey(req), "required", 0, {})
     ELSE IF RequestKey(req) \notin DOMAIN stored
     THEN response' = Response("Get", RequestKey(req), "not found", 0, {})
     ELSE response' = Response("Get", RequestKey(req), Nil, stored[RequestKey(req)], {})
  /\ UNCHANGED <<notStoreVars, stored, objects, deletedKeys>>

\* List: the scan from the encoding of (app, user) up to that of
\* (app, user + "\x00") visits the keys of that application and user.
List(req) ==
  /\ IF req.AppName = "" \/ req.UserID = ""
     THEN response' = Response("List", RequestKey(req), "required", 0, {})
     ELSE response' =
            Response("List", RequestKey(req), Nil, 0,
                     { stored[k] : k \in { x \in DOMAIN stored :
                                             /\ x[1] = req.AppName
                                             /\ x[2] = req.UserID } })
  /\ UNCHANGED <<notStoreVars, stored, objects, deletedKeys>>

\* Delete.
Delete(req) ==
  /\ IF req.AppName = "" \/ req.UserID = "" \/ req.SessionID = <<>>
     THEN /\ response' = Response("Delete", RequestKey(req), "required", 0, {})
          /\ UNCHANGED <<stored, deletedKeys>>
     ELSE /\ stored' = [k \in DOMAIN stored \ {RequestKey(req)} |-> stored[k]]
          /\ deletedKeys' = deletedKeys \cup {RequestKey(req)}
          /\ response' = Response("Delete", RequestKey(req), Nil, 0, {})
  /\ UNCHANGED <<notStoreVars, objects>>

\* AppendEvent on a session a caller holds (0: nil): the state delta is
\* set, the event appended, and the session stored under its own key.
AppendEvent(sess, eventNil, delta) ==
  /\ TotalEvents(Len(objects)) < MaxAppends
  /\ IF sess = 0 \/ eventNil
     THEN /\ response' = Response("AppendEvent", <<>>, "nil", 0, {})
          /\ UNCHANGED <<stored, objects, deletedKeys>>
     ELSE /\ objects' = [objects EXCEPT ![sess].state = @ \cup KeySet(delta),
                                        ![sess].events = @ + 1]
          /\ stored' = (objects[sess].id :> sess) @@ stored
          /\ response' = Response("AppendEvent", objects[sess].id, Nil, sess, {})
          /\ UNCHANGED deletedKeys
  /\ UNCHANGED notStoreVars

NextStore ==
  \/ \E req \in CreateRequests : Create(req)
  \/ \E req \in SessionRequests : Get(req)
  \/ \E req \in ListRequests : List(req)
  \/ \E req \in SessionRequests : Delete(req)
  \/ \E sess \in 0..Len(objects), eventNil \in BOOLEAN, delta \in EventStateDeltas :
       AppendEvent(sess, eventNil, delta)

SpecStore == InitStore /\ [][NextStore]_vars

\* ================================================================== claims
\* The case results collected so far, and those runEvalCase itself built.
CaseResults == result.EvalCaseResults
Evaluated == (1..Len(CaseResults)) \ replayFailed
\* The overall score and status have been computed.
Aggregated == pc \in {"save", "returned", "panicked"} /\ ~result.nil

HasCase(status) == \E i \in 1..Len(CaseResults) : CaseResults[i].FinalEvalStatus = status
HasMetric(m, status) == \E k \in DOMAIN m : m[k].Status = status

\* C1: once the overall status of a run is computed, it is Failed if and only
\* if at least one case result of the run has FinalEvalStatus Failed.
C1_OverallFailedIffCaseFailed ==
  Aggregated => (result.Status = EvalStatusFailed <=> HasCase(EvalStatusFailed))

C1_Witness ==
  /\ Aggregated
  /\ result.Status = EvalStatusFailed
  /\ HasCase(EvalStatusFailed)
  /\ HasCase(EvalStatusPassed)

\* a metric map with its Error entries removed
WithoutErrors(m) == [k \in {x \in DOMAIN m : m[x].Status # EvalStatusError} |-> m[k]]

\* C2: the status of every case runEvalCase folded equals the status the fold
\* gives for the same metric map with all Error entries removed.
C2_ErrorEntriesIgnored ==
  \A i \in Evaluated :
    CaseResults[i].FinalEvalStatus =
      determineCaseStatus(WithoutErrors(CaseResults[i].OverallMetricResults))

C2_Witness ==
  \E i \in Evaluated :
    /\ HasMetric(CaseResults[i].OverallMetricResults, EvalStatusError)
    /\ HasMetric(CaseResults[i].OverallMetricResults, EvalStatusPassed)
    /\ CaseResults[i].FinalEvalStatus = EvalStatusPassed

\* The case fold as the claim words it: Failed if some metric is Failed, else
\* Passed if some metric has any status but Error, else NotEvaluated.
ClaimedCaseStatus(m) ==
  IF HasMetric(m, EvalStatusFailed) THEN EvalStatusFailed
  ELSE IF \E k \in DOMAIN m : m[k].Status \notin {EvalStatusError, EvalStatusFailed}
  THEN EvalStatusPassed
  ELSE EvalStatusNotEvaluated

\* C3 as stated: every folded case has the status ClaimedCaseStatus gives.
C3_Original ==
  \A i \in Evaluated :
    CaseResults[i].FinalEvalStatus = ClaimedCaseStatus(CaseResults[i].OverallMetricResults)

\* The fold as amended: Passed needs a Passed metric and no metric with a
\* status other than Passed or Error.
AmendedCaseStatus(m) ==
  IF HasMetric(m, EvalStatusFailed) THEN EvalStatusFailed
  ELSE IF /\ HasMetric(m, EvalStatusPassed)
          /\ \A k \in DOMAIN m : m[k].Status \in {EvalStatusPassed, EvalStatusError}
  THEN EvalStatusPassed
  ELSE EvalStatusNotEvaluated

\* C3 (amended): a case is Failed if any metric is Failed; otherwise Passed if
\* at least one metric is Passed and every metric is Passed or Error;
\* otherwise (no metric, only Error metrics, or a metric with another status
\* such as NotEvaluated) it is NotEvaluated.
C3_CaseFold ==
  \A i \in Evaluated :
    CaseResults[i].FinalEvalStatus = AmendedCaseStatus(CaseResults[i].OverallMetricResults)

C3_Witness ==
  \E i \in Evaluated :
    /\ HasMetric(CaseResults[i].OverallMetricResults, EvalStatusNotEvaluated)
    /\ HasMetric(CaseResults[i].OverallMetricResults, EvalStatusPassed)
    /\ CaseResults[i].FinalEvalStatus = EvalStatusNotEvaluated

\* C4: when no case is Failed, the overall status is Passed if and only if
\* there is at least one case and every case is Passed, and it is
\* NotEvaluated otherwise.
C4_SuiteFoldWithoutFailure ==
  (Aggregated /\ ~HasCase(EvalStatusFailed)) =>
    /\ result.Status \in {EvalStatusPassed, EvalStatusNotEvaluated}
    /\ result.Status = EvalStatusPassed <=>
         /\ Len(CaseResults) >= 1
         /\ \A i \in 1..Len(CaseResults) : CaseResults[i].FinalEvalStatus = EvalStatusPassed

C4_Witness ==
  /\ Aggregated
  /\ result.Status = EvalStatusNotEvaluated
  /\ HasCase(EvalStatusPassed)
  /\ HasCase(EvalStatusError)

\* the metric types of the first n criteria of the config
ProcessedTypes(n) == { GetMetricType(config.Criteria[j]) : j \in 1..n }
FailureOutcomes == {"createFailed", "rateLimitFailed", "evaluateFailed"}

\* C5: in a case whose replay succeeded the criteria are processed one by
\* one, in order, up to the last: the metric map always holds exactly the
\* metric types of the criteria processed so far, a criterion that failed
\* (construction, rate limit or Evaluate) has just been recorded with status
\* Error under its metric type, and the finished case reports every criterion.
C5_MetricFailureDoesNotAbortCase ==
  /\ pc = "criteria" =>
       /\ critIdx \in 1..(Len(config.Criteria) + 1)
       /\ DOMAIN metricResults = ProcessedTypes(critIdx - 1)
       /\ lastOutcome \in FailureOutcomes =>
            /\ critIdx > 1
            /\ metricResults[GetMetricType(config.Criteria[critIdx - 1])].Status
                 = EvalStatusError
  /\ \A i \in Evaluated :
       DOMAIN CaseResults[i].OverallMetricResults = ProcessedTypes(Len(config.Criteria))

C5_Witness ==
  /\ pc = "criteria"
  /\ critIdx > 2
  /\ lastOutcome = "evaluated"
  /\ LET first == GetMetricType(config.Criteria[1])
         last == GetMetricType(config.Criteria[critIdx - 1])
     IN /\ first # last
        /\ metricResults[first].Status = EvalStatusError
        /\ metricResults[last].Status = EvalStatusPassed

\* C6: a case whose replay failed is reported by a result with status Error
\* whose metric map holds the one synthetic Error entry, the loop goes on
\* with the next case, and the finished run reports every case of the suite.
C6_ReplayFailureLocalised ==
  /\ \A i \in replayFailed :
       /\ i <= Len(CaseResults)
       /\ CaseResults[i].EvalID = evalSet.EvalCases[i].ID
       /\ CaseResults[i].FinalEvalStatus = EvalStatusError
       /\ DOMAIN CaseResults[i].OverallMetricResults = {ErrorKey}
       /\ CaseResults[i].OverallMetricResults[ErrorKey].Status = EvalStatusError
  /\ pc \in {"cases", "criteria"} => Len(CaseResults) = caseIdx - 1
  /\ Aggregated => Len(CaseResults) = Len(evalSet.EvalCases)

C6_Witness ==
  /\ Aggregated
  /\ 1 \in replayFailed
  /\ Len(CaseResults) >= 2
  /\ CaseResults[2].FinalEvalStatus = EvalStatusPassed

\* C7 as stated: once the context is cancelled no criterion is evaluated any
\* more and RunEvalSet does not return normally.
C7_CancellationAbortsRun ==
  [][ctxDone =>
       /\ ~(pc = "criteria" /\ critIdx' = critIdx + 1 /\ lastOutcome' = "evaluated")
       /\ ~(pc # "returned" /\ pc' = "returned" /\ ret'.err = "")]_vars

\* C8 as stated: RunEvalSet on a non-nil suite and config always completes,
\* and a run that returns without error returns one case result per case of
\* the suite, in suite order, each with its case's identifier.
C8_RunAlwaysCompletes ==
  /\ pc # "panicked"
  /\ (pc = "returned" /\ ret.err = "") =>
       /\ Len(ret.result.EvalCaseResults) = Len(evalSet.EvalCases)
       /\ \A i \in 1..Len(evalSet.EvalCases) :
            ret.result.EvalCaseResults[i].EvalID = evalSet.EvalCases[i].ID

\* C9: the save is executed at most once, only after every case was
\* evaluated and the overall score and status were computed, and exactly once
\* in a run that returns for a non-nil suite and config; if the storage
\* fails RunEvalSet returns an error and no result, and if it succeeds the
\* result returned is the one the storage was handed.
C9_PersistedOnce ==
  /\ saveCalls <= 1
  /\ Len(saved) <= saveCalls
  /\ saveCalls = 1 =>
       /\ Aggregated
       /\ pc \in {"returned", "panicked"}
       /\ Len(CaseResults) = Len(evalSet.EvalCases)
       /\ result.OverallScore = calculateOverallScore(CaseResults)
       /\ result.Status = determineOverallStatus(CaseResults)
  /\ (pc = "returned" /\ ~evalSet.nil /\ ~config.nil) =>
       /\ saveCalls = 1
       /\ Len(saved) = 1
       /\ saved[1].result = result
       /\ IF saved[1].failed
          THEN ret.err # "" /\ ret.result.nil
          ELSE ret.err = "" /\ ret.result = saved[1].result
  /\ (pc = "returned" /\ (evalSet.nil \/ config.nil)) =>
       saveCalls = 0 /\ ret.err # "" /\ ret.result.nil

C9_Witness ==
  /\ pc = "returned"
  /\ Len(saved) = 1
  /\ saved[1].failed
  /\ Len(saved[1].result.EvalCaseResults) >= 2
  /\ ret.result.nil

\* The metric results of a run that count for the score: <<case, metric name>>
\* for every entry whose status is not Error.
NonErrorEntries(cases) ==
  UNION { { <<i, k>> : k \in { x \in DOMAIN cases[i].OverallMetricResults :
                                cases[i].OverallMetricResults[x].Status # EvalStatusError } } :
          i \in 1..Len(cases) }

RECURSIVE SumOfScores(_, _)
SumOfScores(cases, entries) ==
  IF entries = {} THEN 0
  ELSE LET e == CHOOSE x \in entries : TRUE
       IN cases[e[1]].OverallMetricResults[e[2]].Score + SumOfScores(cases, entries \ {e})

\* C10: the overall score of a run is the mean of the scores of its metric
\* results whose status is not Error, over all cases, and 0 when there is none.
C10_OverallScoreIsMean ==
  Aggregated =>
    LET entries == NonErrorEntries(CaseResults)
    IN IF entries = {} THEN result.OverallScore = ZeroScore
       ELSE RatEq(result.OverallScore,
                  <<SumOfScores(CaseResults, entries), Cardinality(entries)>>)

C10_Witness ==
  /\ Aggregated
  /\ RatEq(result.OverallScore, <<1, 2>>)
  /\ \E i \in Evaluated : HasMetric(CaseResults[i].OverallMetricResults, EvalStatusError)

\* C11: any two successful passes through applyRateLimit record their
\* last-call times at least the configured minimum delay apart, for every
\* capacity and every interleaving of the callers.
C11_JudgeCallsSpaced ==
  \A i, j \in 1..Len(stamps) :
    i < j => stamps[j] - stamps[i] >= rateLimitDelay

\* C12: never more evaluator calls of judge-based metrics are running than
\* the semaphore has permits.
C12_InFlightBoundedByCapacity ==
  Cardinality({c \in Callers : callers[c].pc = "Evaluate"}) <= evalSemaphore.size

\* C13: a goroutine whose wait in applyRateLimit (in Acquire, or in the
\* sleep) ends without a pass has been cancelled, gets the context's error,
\* leaves lastLLMEvalTime as it was and holds no permit afterwards: the
\* permits taken are exactly those of the goroutines still inside.
C13_CancelledWaitReleases ==
  [][\A c \in Callers :
       (callers[c].pc \in {"Acquire", "sleep"} /\ callers'[c].pc = "idle")
         => /\ callers[c].ctxDone
            /\ callers'[c].err = "canceled"
            /\ lastLLMEvalTime' = lastLLMEvalTime
            /\ stamps' = stamps
            /\ ~callers'[c].holds
            /\ evalSemaphore'.cur = Cardinality({d \in Callers : callers'[d].holds})]_vars

\* One goroutine was cancelled during its sleep, and with a single permit
\* another goroutine is inside applyRateLimit holding it.
C13_Witness ==
  \E c, d \in Callers :
    /\ c # d
    /\ evalSemaphore.size = 1
    /\ callers[c].pc = "idle" /\ callers[c].err = "canceled" /\ callers[c].wake # 0
    /\ callers[d].holds

\* C14: a Runner made without RateLimitDelay has the default delay of 6
\* seconds, and one made with MaxConcurrentEvals <= 0 has one permit.
C14_DefaultsApplied ==
  /\ runnerConfig.RateLimitDelay = 0 => rateLimitDelay = DefaultRateLimitDelay
  /\ runnerConfig.MaxConcurrentEvals <= 0 => evalSemaphore.size = 1

\* C15: a judge-based evaluator's successful result is Failed iff the
\* criterion has a threshold and the score is below its MinScore, and
\* Passed otherwise (always Passed without a threshold, whatever status
\* the judge returned).
C15_ThresholdRule ==
  (evaluator \in JudgeMetrics /\ returned.done /\ ~returned.err)
    => returned.Status =
         IF params.Criterion.threshold /\ RatLess(returned.Score, params.Criterion.MinScore)
         THEN EvalStatusFailed
         ELSE EvalStatusPassed

\* Two argument maps are equal by value: both empty or absent, or the
\* same keys with the same value under each.
ArgsEqualByValue(a, b) ==
  \/ DOMAIN a.m = {} /\ DOMAIN b.m = {}
  \/ DOMAIN a.m = DOMAIN b.m /\ \A k \in DOMAIN a.m : a.m[k] = b.m[k]

\* Two tool-call sequences match: equal length, and at every position
\* equal names and equal argument maps.
SequencesMatch(a, b) ==
  /\ Len(a) = Len(b)
  /\ \A i \in 1..Len(a) :
       a[i].ToolName = b[i].ToolName /\ ArgsEqualByValue(a[i].Arguments, b[i].Arguments)

\* C16: trajectoryMatches says whether two sequences match in that sense,
\* and for non-empty invocation lists the tool-trajectory score is the
\* share of the first min(|actual|, |expected|) pairs whose sequences match.
C16_TrajectoryScore ==
  /\ (evaluator = "trajectoryMatches" /\ returned.done)
       => (returned.Status = "true") = SequencesMatch(params.actual, params.expected)
  /\ (evaluator = MetricToolTrajectoryAvgScore /\ returned.done
        /\ Len(params.Actual) > 0 /\ Len(params.Expected) > 0)
       => LET n == Min(Len(params.Actual), Len(params.Expected))
              matching == {i \in 1..n : SequencesMatch(params.Actual[i].ToolCalls,
                                                       params.Expected[i].ToolCalls)}
          IN /\ ~returned.err
             /\ RatEq(returned.Score, <<Cardinality(matching), n>>)

\* Two pairs were compared: one matched, the other has the same tool and
\* key but another value, and the score is 1/2.
C16_Witness ==
  /\ evaluator = MetricToolTrajectoryAvgScore
  /\ returned.done
  /\ Len(params.Actual) = 2 /\ Len(params.Expected) = 2
  /\ RatEq(returned.Score, <<1, 2>>)
  /\ \E i \in 1..2 :
       /\ Len(params.Actual[i].ToolCalls) = 1 /\ Len(params.Expected[i].ToolCalls) = 1
       /\ params.Actual[i].ToolCalls # params.Expected[i].ToolCalls

\* C17: the token-overlap score is symmetric, and 1.0 for a non-empty text
\* compared with itself.
C17_RougeSymmetricReflexive ==
  (evaluator = "calculateROUGE1" /\ returned.done)
    => /\ RatEq(returned.Score, calculateROUGE1(params.expected, params.actual))
       /\ (params.actual = params.expected /\ params.actual # <<>>)
            => RatEq(returned.Score, OneScore)

\* Two texts of different length in tokens that share a token: the score
\* is strictly between 0 and 1.
C17_Witness ==
  /\ evaluator = "calculateROUGE1"
  /\ returned.done
  /\ Len(tokenize(params.actual)) # Len(tokenize(params.expected))
  /\ RatLess(ZeroScore, returned.Score)
  /\ RatLess(returned.Score, OneScore)

\* The lowercased tokens of a text as a multiset, and the size of the
\* intersection of two of them.
TokenBag(tokens) ==
  [t \in {tokens[i] : i \in DOMAIN tokens} |->
     Cardinality({i \in DOMAIN tokens : tokens[i] = t})]
Overlap(a, b) == BagCardinality(TokenBag(a) (-) (TokenBag(a) (-) TokenBag(b)))
HarmonicMean(p, r) ==
  RatDiv(<<2, 1>>, RatAdd(RatDiv(OneScore, p), RatDiv(OneScore, r)))
InUnitInterval(score) == ~RatLess(score, ZeroScore) /\ ~RatLess(OneScore, score)

\* C18 as stated: the score is the harmonic mean of overlap/|actual
\* tokens| and overlap/|expected tokens|, 0 when the overlap is 0, 1.0
\* when both texts are empty, 0.0 when exactly one text is empty, and
\* always in [0,1].
C18_Original ==
  (evaluator = "calculateROUGE1" /\ returned.done)
    => LET a == tokenize(params.actual)
           e == tokenize(params.expected)
       IN /\ InUnitInterval(returned.Score)
          /\ (params.actual = <<>> /\ params.expected = <<>>)
               => RatEq(returned.Score, OneScore)
          /\ ((params.actual = <<>>) # (params.expected = <<>>))
               => RatEq(returned.Score, ZeroScore)
          /\ (params.actual # <<>> /\ params.expected # <<>>)
               => IF Overlap(a, e) = 0
                  THEN RatEq(returned.Score, ZeroScore)
                  ELSE RatEq(returned.Score,
                             HarmonicMean(<<Overlap(a, e), Len(a)>>, <<Overlap(a, e), Len(e)>>))

\* C18, amended: the same with "empty" said of the token lists: 1.0 when
\* neither text has a token, 0.0 when exactly one has none.
C18_TokenOverlapScore ==
  (evaluator = "calculateROUGE1" /\ returned.done)
    => LET a == tokenize(params.actual)
           e == tokenize(params.expected)
       IN /\ InUnitInterval(returned.Score)
          /\ (Len(a) = 0 /\ Len(e) = 0) => RatEq(returned.Score, OneScore)
          /\ ((Len(a) = 0) # (Len(e) = 0)) => RatEq(returned.Score, ZeroScore)
          /\ (Len(a) # 0 /\ Len(e) # 0)
               => IF Overlap(a, e) = 0
                  THEN RatEq(returned.Score, ZeroScore)
                  ELSE RatEq(returned.Score,
                             HarmonicMean(<<Overlap(a, e), Len(a)>>, <<Overlap(a, e), Len(e)>>))

\* An empty text was compared with a text that is not empty but has no
\* token: the score is 1.0.
C18_Witness ==
  /\ evaluator = "calculateROUGE1"
  /\ returned.done
  /\ params.actual = <<>>
  /\ params.expected # <<>>
  /\ RatEq(returned.Score, OneScore)

\* C19: the hallucination score of an invocation lies in [0,1], and an
\* invocation with an empty response scores exactly 1.0 whatever the
\* judge answers.
C19_EmptyResponseScoresOne ==
  (evaluator = "evaluateInvocation" /\ returned.done)
    => /\ ~returned.err => InUnitInterval(returned.Score)
       /\ params.invocation.AgentResponse = <<>>
            => ~returned.err /\ RatEq(returned.Score, OneScore)

\* Evaluate was called without actual invocations, or, for a metric that
\* matches against expectations, without expected ones.
MissingInvocations ==
  /\ evaluator \in Metrics
  /\ \/ Len(params.Actual) = 0
     \/ evaluator \in MatchMetrics /\ Len(params.Expected) = 0

\* C20: every evaluator returns an error without a judge call when the
\* actual list is empty, the match-type ones also when the expected list
\* is empty, and the Runner records the metric as Error, never Failed.
C20_FailFast ==
  (MissingInvocations /\ returned.done)
    => /\ returned.err
       /\ returned.judgeCalls = 0
       /\ recorded # NoMetricResult => recorded.Status = EvalStatusError

\* The semantic match was asked with actual but without expected
\* invocations, and its metric is recorded as Error.
C20_Witness ==
  /\ evaluator = MetricSemanticResponseMatch
  /\ Len(params.Actual) > 0
  /\ Len(params.Expected) = 0
  /\ recorded.Status = EvalStatusError

\* The settings the judge of a metric must have for a criterion and a config.
JudgeModelFor(crit, cfg) == IF crit.JudgeModel # "" THEN crit.JudgeModel ELSE cfg.JudgeModel
DefaultSamples(metricType) ==
  IF metricType \in {MetricResponseEvaluationScore, MetricHallucinations} THEN 1 ELSE 3
SamplesFor(metricType, crit) ==
  IF crit.NumSamples > 0 THEN crit.NumSamples ELSE DefaultSamples(metricType)
CreatedForJudgeCriterion ==
  /\ evaluator = "createEvaluator"
  /\ returned.done
  /\ ~returned.err
  /\ params.criterion.kind = "LLMAsJudgeCriterion"

\* C21: for every judge-based metric configured through an LLMAsJudgeCriterion,
\* the judge of the evaluator that createEvaluator returns uses the
\* criterion's judge model when it is set, else the config's model, and the
\* criterion's sample count when it is positive, else the default count of
\* the metric.
C21_CriterionSettingsTakePrecedence ==
  CreatedForJudgeCriterion =>
    /\ returned.ModelName = JudgeModelFor(params.criterion, params.config)
    /\ returned.NumSamples = SamplesFor(params.metricType, params.criterion)

\* C21 with the hallucinations metric left out: every other judge-based
\* metric follows the rule.
C21_ExceptHallucinations ==
  (CreatedForJudgeCriterion /\ params.metricType # MetricHallucinations) =>
    /\ returned.ModelName = JudgeModelFor(params.criterion, params.config)
    /\ returned.NumSamples = SamplesFor(params.metricType, params.criterion)

C21_Witness ==
  /\ CreatedForJudgeCriterion
  /\ params.metricType = MetricHallucinations
  /\ params.criterion.NumSamples > 1
  /\ params.criterion.JudgeModel # ""
  /\ returned.NumSamples = 1

NoCriteria == ~config.nil /\ Len(config.Criteria) = 0

\* C22: when the config has zero criteria, every successfully replayed case
\* is reported with an empty metric map and status NotEvaluated, and a suite
\* made only of such cases gets status NotEvaluated and overall score 0.
C22_NoCriteriaNotEvaluated ==
  NoCriteria =>
    /\ \A i \in Evaluated :
         /\ CaseResults[i].OverallMetricResults = EmptyMap
         /\ CaseResults[i].FinalEvalStatus = EvalStatusNotEvaluated
    /\ (Aggregated /\ replayFailed = {}) =>
         /\ result.Status = EvalStatusNotEvaluated
         /\ RatEq(result.OverallScore, ZeroScore)

C22_Witness ==
  /\ NoCriteria
  /\ Aggregated
  /\ replayFailed = {}
  /\ Len(CaseResults) >= 2
  /\ result.Status = EvalStatusNotEvaluated

\* The number of sentences the judge classified Supported or Not applicable.
Unhallucinated(labels) ==
  Cardinality({i \in 1..Len(labels) : labels[i] \in {LabelSupported, LabelNotApplicable}})

\* The sum of the scores of the passes that scored, and their number.
RECURSIVE SumScored(_)
SumScored(passes) ==
  IF Len(passes) = 0 THEN ZeroScore
  ELSE IF Head(passes).ok THEN RatAdd(Head(passes).score, SumScored(Tail(passes)))
  ELSE SumScored(Tail(passes))
NumScored(passes) == Cardinality({i \in 1..Len(passes) : passes[i].ok})
MeanScored(passes) == RatDiv(SumScored(passes), <<NumScored(passes), 1>>)

\* C28: the hallucination score of an invocation is the number of sentences
\* classified Supported or Not applicable divided by the number of segmented
\* sentences, the sentences whose classification failed included; the metric
\* score is the mean over the invocations whose segmentation succeeded, the
\* others being left out of the mean.
C28_HallucinationScore ==
  /\ (evaluator = "evaluateInvocation" /\ returned.done) =>
       LET pass == returned.passes[1]
       IN /\ pass.ok <=> ~returned.err
          /\ (pass.ok /\ Len(pass.sentences) > 0) =>
               /\ Len(pass.labels) = Len(pass.sentences)
               /\ RatEq(returned.Score, <<Unhallucinated(pass.labels), Len(pass.sentences)>>)
  /\ (evaluator = MetricHallucinations /\ returned.done /\ ~returned.err) =>
       /\ Len(returned.passes) = Len(params.Actual)
       /\ NumScored(returned.passes) > 0
       /\ RatEq(returned.Score, MeanScored(returned.passes))

C28_Witness ==
  /\ evaluator = "evaluateInvocation"
  /\ returned.done
  /\ returned.passes[1].labels = <<LabelSupported, "error">>
  /\ RatEq(returned.Score, <<1, 2>>)

AveragingMetrics == {MetricResponseEvaluationScore, MetricSafety, MetricHallucinations}
OtherMetricMaps ==
  {EmptyMap} \cup { Put(EmptyMap, "other", MetricResult("other", st, ZeroScore)) :
                     st \in {EvalStatusPassed, EvalStatusFailed} }

\* C29: for the coherence, safety and hallucinations metrics an invocation
\* whose evaluation by the judge fails is skipped and the score is the mean
\* over the invocations left; when it fails for every invocation Evaluate
\* returns an error, the metric is recorded with status Error, and the case
\* status is the one of the other metrics alone.
C29_FailedInvocationsSkipped ==
  (evaluator \in AveragingMetrics /\ returned.done /\ Len(params.Actual) > 0) =>
    /\ Len(returned.passes) = Len(params.Actual)
    /\ IF NumScored(returned.passes) > 0
       THEN ~returned.err /\ RatEq(returned.Score, MeanScored(returned.passes))
       ELSE /\ returned.err
            /\ recorded # NoMetricResult =>
                 /\ recorded.Status = EvalStatusError
                 /\ \A m \in OtherMetricMaps :
                      determineCaseStatus(Put(m, evaluator, recorded)) = determineCaseStatus(m)

C29_Witness ==
  /\ evaluator = MetricSafety
  /\ returned.done
  /\ Len(returned.passes) = 2
  /\ NumScored(returned.passes) = 0
  /\ recorded.Status = EvalStatusError

\* The indices of the user turns of a conversation, in order.
UserTurns(conversation) ==
  SelectSeq([i \in 1..Len(conversation) |-> i], LAMBDA i : conversation[i].Role = "user")

\* All the parts of the events of a run, in order.
RECURSIVE AllParts(_)
AllParts(run) ==
  IF Len(run) = 0 THEN <<>>
  ELSE (IF ~Head(run).nil /\ Head(run).content
        THEN SelectSeq(Head(run).Parts, LAMBDA part : ~part.nil) ELSE <<>>)
       \o AllParts(Tail(run))

\* The texts of a sequence of parts, concatenated.
RECURSIVE ConcatText(_)
ConcatText(parts) ==
  IF Len(parts) = 0 THEN <<>> ELSE Head(parts).Text \o ConcatText(Tail(parts))

\* The function calls of a sequence of parts, as name and arguments.
CallsOf(parts) ==
  LET called == SelectSeq(parts, LAMBDA part : ~part.FunctionCall.nil)
  IN [i \in 1..Len(called) |-> <<called[i].FunctionCall.Name, called[i].FunctionCall.Args.m>>]

Replayed ==
  /\ evaluator = "runConversation"
  /\ returned.done
  /\ params.agentRunner # Nil
  /\ ~returned.err

\* C30: when an agent runner is configured and the replay succeeds, the
\* actual invocations are exactly one per user turn of the conversation, in
\* conversation order, each with the turn's text as user query, the
\* concatenated response text and the tool calls of the agent's run on that
\* turn, and the session id of the case; other turns produce no invocation.
C30_OneInvocationPerUserTurn ==
  Replayed =>
    LET users == UserTurns(params.conversation)
    IN /\ Len(returned.invocations) = Len(users)
       /\ \A k \in 1..Len(users) :
            LET invocation == returned.invocations[k]
                parts == AllParts(params.runs[users[k]])
            IN /\ invocation.UserQuery = params.conversation[users[k]].Content
               /\ invocation.AgentResponse = ConcatText(parts)
               /\ [i \in 1..Len(invocation.ToolCalls) |->
                      <<invocation.ToolCalls[i].ToolName, invocation.ToolCalls[i].Arguments.m>>]
                    = CallsOf(parts)
               /\ invocation.SessionID = params.sessionID

C30_Witness ==
  /\ Replayed
  /\ Len(params.conversation) = 2
  /\ params.conversation[1].Role = "model"
  /\ Len(returned.invocations) = 1
  /\ returned.invocations[1].UserQuery = <<"b">>
  /\ returned.invocations[1].AgentResponse = <<"a", "b">>
  /\ Len(returned.invocations[1].ToolCalls) = 2

\* An event that escalates has been yielded.
Escalated == \E k \in 1..Len(yielded) : yielded[k].Escalate
LoopEnded == loopPc \in {"returned", "panicked"}

\* The runs of n sub-agents in p passes, in order.
RunsInOrder(p, n) == [k \in 1..(p * n) |-> <<((k - 1) \div n) + 1, ((k - 1) % n) + 1>>]

\* The events a run of sub-agents yields when every event of every run is
\* yielded.
RECURSIVE EventsOfRuns(_)
EventsOfRuns(runs) ==
  IF Len(runs) = 0 THEN <<>>
  ELSE [i \in 1..Len(subAgents[Head(runs)[2]]) |-> <<Head(runs)[1], Head(runs)[2], i>>]
       \o EventsOfRuns(Tail(runs))

YieldedEvents == [k \in 1..Len(yielded) |-> <<yielded[k].pass, yielded[k].agent, yielded[k].index>>]

\* Run returned by itself: the consumer did not stop, no event escalated.
ReturnedByItself == loopPc = "returned" /\ ~stopped /\ ~Escalated

\* C23: with MaxIterations = N > 0, no escalation and a consumer that keeps
\* consuming, Run runs its sub-agents in list order for exactly N passes,
\* yielding every event of every run, and then terminates; with
\* MaxIterations = 0 it returns only when an event escalated or the consumer
\* stopped.
C23_IterationCount ==
  /\ []((ReturnedByItself /\ maxIterations > 0) =>
          /\ iteration = maxIterations
          /\ started = RunsInOrder(maxIterations, Len(subAgents))
          /\ YieldedEvents = EventsOfRuns(started))
  /\ []((loopPc = "returned" /\ maxIterations = 0) => (stopped \/ Escalated))
  /\ [](maxIterations > 0 => <>LoopEnded)

C23_Witness ==
  /\ ReturnedByItself
  /\ maxIterations = 2
  /\ Len(subAgents) = 2
  /\ Len(yielded) = 4

\* The first event that escalated, if any.
FirstEscalation == CHOOSE k \in 1..Len(yielded) :
                     yielded[k].Escalate /\ \A j \in 1..(k - 1) : ~yielded[j].Escalate

\* C24: once a sub-agent yields an event with Actions.Escalate set, no other
\* sub-agent and no further pass is run, every event yielded afterwards is
\* the next one of that same run, the loop ends, and when it returns with
\* the consumer still consuming every event of that run has been yielded.
C24_EscalationEndsLoop ==
  /\ [](Escalated =>
          LET e == yielded[FirstEscalation]
          IN /\ started[Len(started)] = <<e.pass, e.agent>>
             /\ \A j \in (FirstEscalation + 1)..Len(yielded) :
                  /\ yielded[j].pass = e.pass
                  /\ yielded[j].agent = e.agent
                  /\ yielded[j].index = yielded[j - 1].index + 1
             /\ (loopPc = "returned" /\ ~stopped) =>
                  yielded[Len(yielded)].index = Len(subAgents[e.agent]))
  /\ [](Escalated => <>LoopEnded)

C24_Witness ==
  /\ Escalated
  /\ loopPc = "returned"
  /\ ~stopped
  /\ maxIterations = 0
  /\ Len(subAgents) = 2
  /\ yielded[FirstEscalation].pass = 2
  /\ yielded[FirstEscalation].agent = 1
  /\ Len(yielded) > FirstEscalation

\* The event is one whose output the agent saves, as the contract words it:
\* written by the agent itself, under a set OutputKey, not partial, with at
\* least one content part.
SavesOutput(a, event) ==
  /\ ~event.nil
  /\ event.Author = a.Name
  /\ a.OutputKey # ""
  /\ event.response /\ ~event.Partial
  /\ event.content /\ Len(event.Parts) > 0

\* The texts of the parts that are no thoughts, joined in order.
RECURSIVE NonThoughtText(_)
NonThoughtText(parts) ==
  IF Len(parts) = 0 THEN <<>>
  ELSE (IF Head(parts).Thought THEN <<>> ELSE Head(parts).Text) \o NonThoughtText(Tail(parts))

WithOutput(a, event) ==
  [nil |-> FALSE,
   m |-> [k \in (DOMAIN event.StateDelta.m) \cup {a.OutputKey} |->
            IF k = a.OutputKey THEN NonThoughtText(event.Parts) ELSE event.StateDelta.m[k]]]

MaybeSaved == fn = "maybeSaveOutputToState" /\ fnRet # <<>>

\* C25 as stated: maybeSaveOutputToState writes StateDelta[OutputKey] = the
\* joined non-thought text exactly when the author is the agent, OutputKey is
\* set, the event is not partial and has a content part; in every other case
\* the StateDelta is unchanged.
C25_SavedExactlyWhenOwnFinalOutput ==
  MaybeSaved =>
    fnRet.StateDelta =
      IF SavesOutput(fnArgs.agent, fnArgs.event) THEN WithOutput(fnArgs.agent, fnArgs.event)
      ELSE fnArgs.event.StateDelta

\* C25, amended: the write also needs that the agent has no OutputSchema or
\* that the joined text is not blank; in every other case the StateDelta is
\* unchanged.
C25_SavedUnlessBlankUnderSchema ==
  MaybeSaved =>
    fnRet.StateDelta =
      IF /\ SavesOutput(fnArgs.agent, fnArgs.event)
         /\ (fnArgs.agent.OutputSchema =>
               \E i \in 1..Len(NonThoughtText(fnArgs.event.Parts)) :
                 NonThoughtText(fnArgs.event.Parts)[i] # " ")
      THEN WithOutput(fnArgs.agent, fnArgs.event)
      ELSE fnArgs.event.StateDelta

\* An agent with an OutputSchema saved the text of an event of two parts, one
\* of them a thought, into a StateDelta that was nil.
C25_Witness ==
  /\ MaybeSaved
  /\ SavesOutput(fnArgs.agent, fnArgs.event)
  /\ fnArgs.agent.OutputSchema
  /\ fnArgs.event.StateDelta.nil
  /\ fnArgs.event.Parts = <<[Text |-> <<"a">>, Thought |-> TRUE], [Text |-> <<"a">>, Thought |-> FALSE]>>
  /\ fnRet.StateDelta = [nil |-> FALSE, m |-> ("key" :> <<"a">>)]

\* The placeholder's name: its braces and the blanks around it removed, and
\* the optional suffix dropped.
PlaceholderName(p) ==
  LET bare == TrimBlanks(SelectSeq(p, LAMBDA r : r \notin Braces))
  IN IF Len(bare) > 0 /\ bare[Len(bare)] = "?" THEN SubSeq(bare, 1, Len(bare) - 1) ELSE bare
IsOptional(p) ==
  LET bare == TrimBlanks(SelectSeq(p, LAMBDA r : r \notin Braces))
  IN Len(bare) > 0 /\ bare[Len(bare)] = "?"
IsArtifactName(name) == Len(name) >= 2 /\ name[1] = "artifact" /\ name[2] = "."

\* What a placeholder becomes by the rules for state names.
StateRule(p) ==
  IF ~isValidStateName(PlaceholderName(p)) THEN Replaced(p)
  ELSE IF PlaceholderName(p) \in DOMAIN SessionState
  THEN Replaced(SessionState[PlaceholderName(p)].text)
  ELSE IF IsOptional(p) THEN Replaced(<<>>)
  ELSE ReplaceError

\* What a placeholder that names an artifact becomes: the artifact's text; an
\* error without an artifact service; a missing artifact as a missing name.
ArtifactRule(artifacts, p) ==
  LET file == SubSeq(PlaceholderName(p), 3, Len(PlaceholderName(p)))
  IN IF artifacts = Nil THEN ReplaceError
     ELSE IF file \in DOMAIN ArtifactFiles THEN Replaced(ArtifactFiles[file])
     ELSE IF IsOptional(p) THEN Replaced(<<>>)
     ELSE ReplaceError

Becomes(withArtifacts, artifacts, p) ==
  IF withArtifacts /\ IsArtifactName(PlaceholderName(p)) THEN ArtifactRule(artifacts, p)
  ELSE StateRule(p)

\* The template rewritten placeholder by placeholder, the text outside kept.
RECURSIVE Rewritten(_, _, _, _, _)
Rewritten(withArtifacts, artifacts, template, placeholders, i) ==
  LET from == IF i = 1 THEN 1 ELSE placeholders[i - 1][2]
  IN IF i > Len(placeholders) THEN SubSeq(template, from, Len(template))
     ELSE SubSeq(template, from, placeholders[i][1] - 1)
            \o Becomes(withArtifacts, artifacts,
                       SubSeq(template, placeholders[i][1], placeholders[i][2] - 1)).text
            \o Rewritten(withArtifacts, artifacts, template, placeholders, i + 1)

Injected(withArtifacts, artifacts, template) ==
  LET placeholders == FindAllStringIndex(template, 1)
  IN IF \E i \in 1..Len(placeholders) :
          Becomes(withArtifacts, artifacts,
                  SubSeq(template, placeholders[i][1], placeholders[i][2] - 1)).err
     THEN ReplaceError
     ELSE Replaced(Rewritten(withArtifacts, artifacts, template, placeholders, 1))

SessionStateInjected == fn = "injectSessionState" /\ fnRet # <<>>

C27_EveryAccessHoldsItsLock == lastAccess.guarded

\* C33: every case result in an EvalSetResult carries the suite's identifier
\* as its EvalSetID (the result's own EvalSetID) and its case's identifier as
\* EvalID, for a case that replayed and for one replaced by the synthetic
\* Error result alike.
C33_CaseResultsCarrySuiteAndCaseID ==
  ~result.nil =>
    \A i \in DOMAIN result.EvalCaseResults :
      /\ result.EvalCaseResults[i].EvalSetID = result.EvalSetID
      /\ result.EvalCaseResults[i].EvalSetID = evalSet.ID
      /\ result.EvalCaseResults[i].EvalID = evalSet.EvalCases[i].ID

CriterionRun == evaluator = "runEvalCase" /\ returned.done

\* C35: expected invocations come only from a non-empty ExpectedResponse (one
\* invocation with the response and the converted tool calls, else none): a
\* case with ExpectedToolCalls and an empty ExpectedResponse has none, and
\* its tool-trajectory metric, like every other metric that needs expected
\* invocations, is recorded as Error whatever the agent called.
C35_ExpectedOnlyFromResponse ==
  CriterionRun =>
    /\ returned.Expected =
         IF params.evalCase.ExpectedResponse = <<>> THEN <<>>
         ELSE <<[AgentResponse |-> params.evalCase.ExpectedResponse,
                 ToolCalls |-> params.evalCase.ExpectedToolCalls]>>
    /\ params.evalCase.ExpectedResponse = <<>> =>
         /\ returned.err
         /\ recorded = [MetricType |-> params.metricType, Status |-> EvalStatusError,
                        Score |-> ZeroScore]

\* A case that expects a tool call and no response was replayed with that
\* very call made, and its tool-trajectory metric was recorded as Error.
C35_Witness ==
  /\ CriterionRun
  /\ params.metricType = MetricToolTrajectoryAvgScore
  /\ params.evalCase.ExpectedResponse = <<>>
  /\ Len(params.evalCase.ExpectedToolCalls) = 1
  /\ Len(params.Actual) = 1
  /\ params.Actual[1].ToolCalls = params.evalCase.ExpectedToolCalls
  /\ recorded.Status = EvalStatusError

\* The step of runEvalCase that handles the criterion the loop is at.
CriterionHandled == InCriteria /\ critIdx' = critIdx + 1

\* C32: rate limiting applies only to judge-based metrics that reached
\* evaluation: handling an algorithmic criterion (response match, tool
\* trajectory) or one whose evaluator could not be created never calls
\* applyRateLimit, so it takes no permit, does not sleep and leaves the
\* last-call timestamp as it was.
C32_RateLimitOnlyForJudgedMetrics ==
  /\ [](~isLLMBasedMetric(MetricResponseMatch) /\ ~isLLMBasedMetric(MetricToolTrajectoryAvgScore))
  /\ [][CriterionHandled
          /\ (\/ criterion.MetricType \in {MetricResponseMatch, MetricToolTrajectoryAvgScore}
              \/ lastOutcome' = "createFailed")
        => /\ calls' = calls
           /\ lastLLMEvalTime' = lastLLMEvalTime
           /\ evalSemaphore' = evalSemaphore
           /\ now' = now]_vars

\* A response-match criterion was evaluated and the one of an unregistered
\* metric type failed to get its evaluator, and applyRateLimit was not called.
C32_Witness ==
  /\ pc = "criteria"
  /\ Len(config.Criteria) = 2
  /\ config.Criteria[1].MetricType = MetricResponseMatch
  /\ config.Criteria[2].MetricType = MetricUnregistered
  /\ critIdx = 3
  /\ Len(criterionResults) = 2
  /\ criterionResults[1].Status = EvalStatusPassed
  /\ lastOutcome = "createFailed"
  /\ calls = 0
  /\ lastLLMEvalTime = 0

\* The metric types of the criteria handled so far in the case.
HandledTypes == { config.Criteria[i].MetricType : i \in 1..(critIdx - 1) }
\* The index of the last criterion handled so far that has the metric type.
LastOf(metricType) ==
  CHOOSE i \in 1..(critIdx - 1) :
    /\ config.Criteria[i].MetricType = metricType
    /\ \A j \in (i + 1)..(critIdx - 1) : config.Criteria[j].MetricType # metricType

\* C34: a case's metric map has exactly one entry per distinct metric type
\* among the criteria: of two criteria with one metric type the later
\* one's result replaces the earlier one's, and it alone counts toward the
\* case's status and the overall score.
C34_LaterCriterionReplacesEarlier ==
  /\ pc = "criteria" =>
       /\ Len(criterionResults) = critIdx - 1
       /\ DOMAIN metricResults = HandledTypes
       /\ \A t \in HandledTypes : metricResults[t] = criterionResults[LastOf(t)]
  /\ ~result.nil =>
       \A i \in DOMAIN result.EvalCaseResults :
         i \notin replayFailed =>
           /\ DOMAIN result.EvalCaseResults[i].OverallMetricResults
                = { config.Criteria[j].MetricType : j \in DOMAIN config.Criteria }
           /\ result.EvalCaseResults[i].FinalEvalStatus
                = determineCaseStatus(result.EvalCaseResults[i].OverallMetricResults)

\* Two criteria of one metric type were handled: the earlier one's result
\* was Failed, the later one's Passed, and the map holds the later one.
C34_Witness ==
  /\ pc = "criteria"
  /\ critIdx = 3
  /\ config.Criteria[1].MetricType = config.Criteria[2].MetricType
  /\ criterionResults[1].Status = EvalStatusFailed
  /\ criterionResults[2].Status = EvalStatusPassed
  /\ Cardinality(DOMAIN metricResults) = 1
  /\ metricResults[config.Criteria[2].MetricType].Status = EvalStatusPassed
  /\ determineCaseStatus(metricResults) = EvalStatusPassed

\* The positions of the replay's log at which the agent is run on a turn.
Submissions == { k \in DOMAIN replayLog : replayLog[k][1] = "Run" }
Before(k, entry) == \E j \in 1..(k - 1) : replayLog[j] = entry
UserTurnsBefore(i) == { j \in 1..(i - 1) : replaying.conversation[j].Role = "user" }

\* Turn by turn: the run of a user turn starts only after every event of the
\* run of every earlier user turn was consumed and its invocation collected,
\* and after an error of a run no turn is submitted.
TurnByTurn ==
  \A k \in Submissions :
    /\ \A j \in UserTurnsBefore(replayLog[k][2]) :
         /\ \A e \in 1..Len(replaying.runs[j]) : Before(k, <<"event", j, e>>)
         /\ Before(k, <<"invocation", j>>)
    /\ \A j \in 1..(k - 1) : replayLog[j][1] # "error"

\* C31 as stated: the replay within a case is strictly sequential: the
\* session is created before the first turn is submitted, the agent's run
\* for a user turn starts only after the events of every earlier user turn
\* were fully consumed, and after an error of a run no later turn is
\* submitted.
C31_SessionCreatedThenTurnByTurn ==
  /\ \A k \in Submissions : Before(k, <<"Create", TRUE>>)
  /\ TurnByTurn

\* C31, amended: as stated, except that the session is created (Create has
\* returned nil or "already exists") before the first turn only when the
\* Runner has a session service; without one the turns are submitted with no
\* session created.
C31_CreatedByServiceThenTurnByTurn ==
  /\ replaying.sessionService # Nil => \A k \in Submissions : Before(k, <<"Create", TRUE>>)
  /\ replaying.sessionService = Nil => \A k \in DOMAIN replayLog : replayLog[k][1] # "Create"
  /\ TurnByTurn

\* With a session service, two user turns were replayed, the first one's run
\* of two events consumed before the second was submitted, and the second
\* one's run ended in an error after one event.
C31_Witness ==
  /\ replayPc = "returned"
  /\ replaying.sessionService # Nil
  /\ replayLog = << <<"Create", TRUE>>, <<"Run", 1>>, <<"event", 1, 1>>, <<"event", 1, 2>>,
                    <<"invocation", 1>>, <<"Run", 2>>, <<"event", 2, 1>>, <<"error", 2, 2>>,
                    <<"return", TRUE>> >>

\* C36: instructionsRequestProcessor appends to the request, in this order,
\* the root agent's GlobalInstruction with the session state injected, when
\* the root has one, and then the current agent's own Instruction, when it
\* has one; an agent that is not the root contributes no global instruction
\* of its own.
InstructionsProcessed ==
  /\ fn = "instructionsRequestProcessor"
  /\ fnRet # <<>>
  /\ ~fnArgs.agent.nil
  /\ ~fnRet.err
RootOf(args) == IF args.root.nil THEN args.agent ELSE args.root
InjectedText(args, template) == injectSessionState(args.artifacts, template).text
C36_RootGlobalThenOwnInstruction ==
  InstructionsProcessed =>
    fnRet.appended =
      (IF RootOf(fnArgs).GlobalInstruction # <<>>
       THEN <<InjectedText(fnArgs, RootOf(fnArgs).GlobalInstruction)>>
       ELSE <<>>)
      \o (IF fnArgs.agent.Instruction # <<>>
          THEN <<InjectedText(fnArgs, fnArgs.agent.Instruction)>>
          ELSE <<>>)

\* C37: a deleted session stays deleted: after Delete succeeds for a key, Get
\* and List return no session for that key until a later Create for the same
\* key, whatever is called in between, AppendEvent on a session obtained
\* before the Delete included.
C37_DeletedStaysDeleted ==
  /\ response.op = "Get" /\ response.key \in deletedKeys => response.err # Nil
  /\ response.op = "List" =>
       \A o \in response.Sessions : objects[o].id \notin deletedKeys

\* C38: Create on a key that is stored returns no error and replaces the
\* stored session by a fresh one with no events and the request's state; the
\* service never reports an "already exists" error.
CreateOnStoredKey == response'.op = "Create" /\ response'.key \in DOMAIN stored
C38_CreateReplacesStored ==
  [][/\ CreateOnStoredKey =>
          /\ response'.err = Nil
          /\ response'.Session = Len(objects) + 1
          /\ stored'[response'.key] = response'.Session
          /\ objects'[response'.Session].events = 0
          /\ \E req \in CreateRequests :
               /\ RequestKey(req) = response'.key
               /\ objects'[response'.Session].state = KeySet(req.State)
     /\ response'.err # "already exists"]_vars
\* A session with an event and state was replaced by a fresh one without.
C38_Witness ==
  /\ response.op = "Create"
  /\ response.err = Nil
  /\ response.found # 0
  /\ objects[response.found].events > 0
  /\ objects[response.found].state # objects[response.Session].state
  /\ stored[response.key] = response.Session

\* C39: LoopAgent.Run never reads a field of a nil event: when a sub-agent
\* yields an error together with a nil event and the consumer keeps
\* iterating, the loop passes the error on and continues or ends without
\* crashing.
C39_NilEventIsNotRead == loopPc # "panicked"

====
